---- MODULE Spec2Model ----
(***************************************************************************)
(* Tiered memory consolidation engine of HomeAISystem                      *)
(* (src/scripts/memory): the five tiers and the MemoryCoordinator.         *)
(*                                                                         *)
(* Time is in seconds.  Salience is a Python float; it is kept here as a   *)
(* fixed-point number of millionths (0.8 is 800000), and the product with  *)
(* 0.99 is rounded to the nearest millionth.  An Optional value is the     *)
(* empty sequence for None and a one-element sequence otherwise.           *)
(***************************************************************************)
EXTENDS Integers, Sequences, FiniteSets, TLC

VARIABLES
    now,        \* time.time() / datetime.utcnow()
    branch,     \* which side of the unresolved merge in memory/__init__.py is built
    active,     \* ActiveMemory._buffer
    active_maxlen, \* the maxlen ActiveMemory was constructed with
    short,      \* ShortTermMemory.entries
    short_file, \* the JSON file behind ShortTermMemory
    mid,        \* rows of the SQLite table mid_term
    next_id,    \* AUTOINCREMENT counter of mid_term.id
    long,       \* LongTermMemory.entries
    long_file,  \* the JSON file behind LongTermMemory
    archive,    \* lines of the gzip JSONL archive
    calendar,   \* events of the "user" calendar
    clair_calendar, \* events of the "clair" calendar
    last_daily_summary, \* MemoryCoordinator._last_daily_summary
    ret,        \* what the last operation was, was given and returned
    count,      \* how many operations of each bounded kind have run
    pc,         \* position of each concurrent sweeper inside MidTermMemory.sweep
    sel,        \* rows each concurrent sweeper has fetched
    hist,       \* ids / texts returned by sweep and decay so far
    disk,       \* per persisted tier, whether the bytes on disk are well formed
    tmp,        \* the .tmp file purge_old_memories writes beside the archive
    local,      \* local variables of each thread inside a tier operation
    objs,       \* the MemoryPacket objects callers hold, and which ones Active and Short-Term refer to
    store,      \* per storage key, the tiers of the Coordinator created for that user id
    hygiene     \* EmotionalHygiene: the two intervals and the two last-offer times

vars == <<now, branch, objs, store, hygiene, active, active_maxlen, short, short_file, mid, next_id, long, long_file,
          archive, calendar, clair_calendar, last_daily_summary, ret, count, pc, sel, hist,
          disk, tmp, local>>

----------------------------------------------------------------------------
(* Bounds of the model *)
MaxTicks == 1
MaxPackets == 2
MaxConsolidate == 1
MaxRows == 2
MaxLongOps == 4
MaxRecords == 3
MaxEntries == 2

(* Program constants *)
Scale == 1000 * 1000
Hour == 3600
Day == 24 * Hour
PruneHours == 24
ReinforceIncrement == Scale \div 10
SalienceCap == Scale
DecayNum == 99
DecayDen == 100
DefaultThreshold == 2 * (Scale \div 10)
PromoteThreshold == 8 * (Scale \div 10)
SummarySalience == 6 * (Scale \div 10)
ReminderSalience == 7 * (Scale \div 10)
ReminderLeadDays == 3
ActiveMaxLen == 20

(* The clock advances in steps of two days from a start sixty days in. *)
Tick == 48 * Hour
StartTime == 60 * Day

None == <<>>
Some(v) == <<v>>
Min(a, b) == IF a < b THEN a ELSE b
Range(s) == {s[i] : i \in DOMAIN s}

----------------------------------------------------------------------------
(* types.py *)
MemoryPacket(timestamp, text, participants, tags, salience, expiry) ==
    [timestamp |-> timestamp, text |-> text, participants |-> participants,
     tags |-> tags, salience |-> salience, expiry |-> expiry]

Create(t, text, participants, tags, salience, expiry) ==
    MemoryPacket(t, text, participants, tags, salience, expiry)

ToDict(p) == p

JsonDumps(d) == <<"json", d>>
JsonLoads(s) == s[2]

(* Python truthiness of an Optional[float] *)
Truthy(opt) == opt # None /\ opt[1] # 0

----------------------------------------------------------------------------
(* active.py *)
(* A variant that turns the new packet away when the buffer is full *)
PushDropsNewest(buf, p) ==
    IF Len(buf) >= active_maxlen THEN buf ELSE Append(buf, p)

(* push: deque(maxlen=N).append drops the leftmost item of a full deque *)
Push(buf, p) ==
    IF Len(buf) >= active_maxlen THEN Append(Tail(buf), p) ELSE Append(buf, p)

Snapshot(buf) == buf

(* short_term.py *)
GetRecent(entries, t, hours) ==
    SelectSeq(entries, LAMBDA p : p.timestamp >= t - hours * Hour)

(* _save.  Every exception is swallowed; what is on disk afterwards depends *)
(* on where it was raised: nowhere ("ok"), in mkdir or open ("not_opened",  *)
(* the file is as before), or in json.dump after open(path, "w") truncated  *)
(* the file ("partial", the file holds an unfinished document).             *)
SaveOutcomes == {"ok", "not_opened", "partial"}

(* A variant that opens the file for appending *)
SaveAppends(entries, file, state, outcome) ==
    [file |-> file \o [i \in DOMAIN entries |-> ToDict(entries[i])], state |-> state]

Save(entries, file, state, outcome) ==
    CASE outcome = "ok" ->
            [file |-> [i \in DOMAIN entries |-> ToDict(entries[i])], state |-> "ok"]
      [] outcome = "not_opened" -> [file |-> file, state |-> state]
      [] outcome = "partial" -> [file |-> <<>>, state |-> "corrupt"]

(* _load: json.load, then a MemoryPacket per element; any exception gives [] *)
Load(file, state) ==
    IF state = "ok" THEN [i \in DOMAIN file |-> file[i]] ELSE <<>>

(* A variant that also removes the packet exactly 24 hours old *)
PruneAtCutoff(entries, t) ==
    LET cutoff == t - PruneHours * Hour
    IN  [old  |-> SelectSeq(entries, LAMBDA p : p.timestamp <= cutoff),
         kept |-> SelectSeq(entries, LAMBDA p : p.timestamp > cutoff)]

Prune(entries, t) ==
    LET cutoff == t - PruneHours * Hour
    IN  [old  |-> SelectSeq(entries, LAMBDA p : p.timestamp < cutoff),
         kept |-> SelectSeq(entries, LAMBDA p : p.timestamp >= cutoff)]

(* mid_term.py *)
Row(id, p, expiry) == [id |-> id, data |-> JsonDumps(ToDict(p)), expiry |-> expiry]

MidAdd(rows, id, p, expiry) == Append(rows, Row(id, p, expiry))

(* A variant whose SELECT takes every row *)
SweepSelectAll(rows, t) == rows

SweepSelect(rows, t) == SelectSeq(rows, LAMBDA r : r.expiry <= t)

(* A variant whose DELETE removes nothing *)
SweepDeleteNothing(rows, ids) == rows

SweepDelete(rows, ids) == SelectSeq(rows, LAMBDA r : r.id \notin ids)

Packets(rows) == [i \in DOMAIN rows |-> JsonLoads(rows[i].data)]

Ids(rows) == {rows[i].id : i \in DOMAIN rows}

Sweep(rows, t) ==
    LET fetched == SweepSelect(rows, t)
    IN  [packets |-> Packets(fetched),
         ids     |-> Ids(fetched),
         rows    |-> IF Ids(fetched) # {} THEN SweepDelete(rows, Ids(fetched)) ELSE rows]

(* A variant whose SELECT also takes the row that expires right now *)
FetchActiveInclusive(rows, t) == Packets(SelectSeq(rows, LAMBDA r : r.expiry >= t))

FetchActive(rows, t) == Packets(SelectSeq(rows, LAMBDA r : r.expiry > t))

(* long_term.py *)
FindText(entries, text) ==
    IF \E i \in DOMAIN entries : entries[i].text = text
    THEN CHOOSE i \in DOMAIN entries :
            /\ entries[i].text = text
            /\ \A j \in DOMAIN entries : entries[j].text = text => i <= j
    ELSE 0

(* A variant that inserts without looking the text up *)
ReinforceAlwaysInsert(entries, p) == Append(entries, ToDict(p))

(* A variant that brings an archived record of the text back when the    *)
(* text is not stored                                                     *)
ReinforceRecalls(entries, p) ==
    LET i == FindText(entries, p.text)
        archived == SelectSeq(archive, LAMBDA l : JsonLoads(l).text = p.text)
    IN  IF i # 0
        THEN [entries EXCEPT ![i].salience = Min(SalienceCap, @ + ReinforceIncrement)]
        ELSE IF archived # <<>>
        THEN Append(entries, JsonLoads(archived[1]))
        ELSE Append(entries, ToDict(p))

Reinforce(entries, p) ==
    LET i == FindText(entries, p.text)
    IN  IF i # 0
        THEN [entries EXCEPT ![i].salience = Min(SalienceCap, @ + ReinforceIncrement)]
        ELSE Append(entries, ToDict(p))

Times99(s) == (s * DecayNum + DecayDen \div 2) \div DecayDen

(* A variant that partitions on the salience before the multiplication *)
DecayStalePartition(entries, threshold) ==
    LET decayed == [i \in DOMAIN entries |->
                        [entries[i] EXCEPT !.salience = Times99(@)]]
        stale(text) == \E i \in DOMAIN entries :
                            entries[i].text = text /\ entries[i].salience < threshold
    IN  [archived |-> SelectSeq(decayed, LAMBDA e : stale(e.text)),
         kept     |-> SelectSeq(decayed, LAMBDA e : ~stale(e.text))]

(* A variant that returns the demoted entries and keeps them stored *)
DecayKeepsDemoted(entries, threshold) ==
    LET decayed == [i \in DOMAIN entries |->
                        [entries[i] EXCEPT !.salience = Times99(@)]]
    IN  [archived |-> SelectSeq(decayed, LAMBDA e : e.salience < threshold),
         kept     |-> decayed]

(* A variant that drops the demoted entries without returning them *)
DecayUnreported(entries, threshold) ==
    LET decayed == [i \in DOMAIN entries |->
                        [entries[i] EXCEPT !.salience = Times99(@)]]
    IN  [archived |-> <<>>,
         kept     |-> SelectSeq(decayed, LAMBDA e : e.salience >= threshold)]

Decay(entries, threshold) ==
    LET decayed == [i \in DOMAIN entries |->
                        [entries[i] EXCEPT !.salience = Times99(@)]]
    IN  [archived |-> SelectSeq(decayed, LAMBDA e : e.salience < threshold),
         kept     |-> SelectSeq(decayed, LAMBDA e : e.salience >= threshold)]

(* archive.py *)
Lines(packets) == [i \in DOMAIN packets |-> JsonDumps(ToDict(packets[i]))]

(* A variant that skips a packet the archive already holds *)
StoreDedup(lines, packets) ==
    lines \o SelectSeq(Lines(packets), LAMBDA l : l \notin Range(lines))

Store(lines, packets) == lines \o Lines(packets)

(* A variant that drops a record when either condition holds *)
PurgeEither(lines, t, age_threshold_days, salience_threshold) ==
    LET cutoff == t - age_threshold_days * Day
    IN  SelectSeq(lines, LAMBDA l :
            ~ (JsonLoads(l).timestamp < cutoff
               \/ JsonLoads(l).salience < salience_threshold))

PurgeOldMemories(lines, t, age_threshold_days, salience_threshold) ==
    LET cutoff == t - age_threshold_days * Day
    IN  SelectSeq(lines, LAMBDA l :
            ~ (JsonLoads(l).timestamp < cutoff
               /\ JsonLoads(l).salience < salience_threshold))

----------------------------------------------------------------------------
(* personal_calendar_manager.py: the "user" calendar, kept sorted by        *)
(* (date, start) with a stable sort.                                        *)
Event(date, start, title) == [date |-> date, start |-> start, title |-> title]

CalendarAdd(events, e) ==
    LET before == SelectSeq(events, LAMBDA x : x.date <= e.date)
        after  == SelectSeq(events, LAMBDA x : x.date > e.date)
    IN  before \o <<e>> \o after

DateOf(t) == t \div Day

----------------------------------------------------------------------------
(* The record every operation leaves in ret. *)
Ret(op) ==
    [op |-> op, raised |-> FALSE, arg |-> <<>>, params |-> <<>>, pruned |-> <<>>,
     dropped |-> <<>>,
     reinforced |-> <<>>, stored |-> <<>>, expired |-> <<>>, demoted |-> <<>>,
     reminders |-> <<>>, llm |-> <<>>, event |-> <<>>, faults |-> {},
     reported |-> {}, followups |-> <<>>, user |-> ""]

(* Inputs *)
Texts == {"a", "b"}
TimestampInputs(t) == {t}
(* The packets the Coordinator is given: not salient with an expiry (the   *)
(* write fan-out scenario), salient without an expiry, salient with one,   *)
(* and salience above 1 with an expiry of 0.0.                             *)
Cases ==
    {<<"a", 3 * (Scale \div 10), Some(StartTime + Tick)>>,
     <<"a", 9 * (Scale \div 10), None>>,
     <<"b", 9 * (Scale \div 10), Some(StartTime + Tick)>>,
     <<"b", 15 * (Scale \div 10), Some(0)>>}
PacketInputs(t) ==
    {MemoryPacket(ts, c[1], <<>>, <<>>, c[2], c[3]) :
        ts \in TimestampInputs(t), c \in Cases}

(* What generate_response does when called with history= and human_mode=:  *)
(* the adapter under scripts/llm_adapter.py takes one parameter and the     *)
(* call raises TypeError; an adapter with the called signature (the tests   *)
(* install one) returns None or a reply.                                    *)
SummaryOutcomes == {"TypeError", "None", "s"}
EventDays == {DateOf(StartTime) + 3, DateOf(StartTime + Tick) + 3}
EventOutcomes ==
    {[kind |-> k, date |-> None] : k \in {"None", "garbage", "null", "emptydict"}}
    \cup {[kind |-> "dict", date |-> Some(d)] : d \in EventDays}

----------------------------------------------------------------------------
(* memory/__init__.py *)

TiersOf(sh, mi, nid, lo, ar, cal, last) ==
    [short |-> sh, mid |-> mi, next_id |-> nid, long |-> lo, archive |-> ar,
     calendar |-> cal, last |-> last]

(* A variant that archives a pruned packet only when it was not reinforced *)
RECURSIVE ArchivePrunedEitherOr(_, _)
ArchivePrunedEitherOr(acc, packets) ==
    IF packets = <<>> THEN acc
    ELSE LET p == Head(packets)
         IN  ArchivePrunedEitherOr(
                IF p.salience >= PromoteThreshold
                THEN [acc EXCEPT !.long = Reinforce(@, p),
                                 !.reinforced = Append(@, p)]
                ELSE [acc EXCEPT !.archive = Store(@, <<p>>),
                                 !.stored = Append(@, p)],
                Tail(packets))

(* for p in packets: reinforce when salient, archive always; acc carries   *)
(* the Long-Term entries, the archive, and what was reinforced and stored  *)
RECURSIVE ArchivePruned(_, _)
ArchivePruned(acc, packets) ==
    IF packets = <<>> THEN acc
    ELSE LET p  == Head(packets)
             a1 == IF p.salience >= PromoteThreshold
                   THEN [acc EXCEPT !.long = Reinforce(@, p),
                                    !.reinforced = Append(@, p)]
                   ELSE acc
             a2 == [a1 EXCEPT !.archive = Store(@, <<p>>),
                              !.stored = Append(@, p)]
         IN  ArchivePruned(a2, Tail(packets))

ReminderPacket(t, title, expiry) ==
    Create(t, "Proactive Reminder: Talk to Handler about upcoming event: " \o title,
           <<"Handler">>, <<"reminder">>, ReminderSalience, Some(expiry))

SummaryPacket(t, daily_summary) ==
    Create(t, "Daily summary " \o ToString(DateOf(t)) \o ": " \o daily_summary,
           <<>>, <<"daily_summary">>, SummarySalience, None)

(* _schedule_event: the calendar write, then the reminder row *)
ScheduleEvent(st, t, ev) ==
    LET dt       == ev.date[1] * Day
        reminder == ReminderPacket(t, "ev", dt - ReminderLeadDays * Day)
    IN  [st EXCEPT !.calendar = CalendarAdd(@, Event(ev.date[1], 0, "ev")),
                   !.mid = MidAdd(@, st.next_id, reminder, reminder.expiry[1]),
                   !.next_id = @ + 1]

(* _create_daily_summary_and_schedule_events; the result carries the tiers, *)
(* whether the call raised, and the packets handed to reinforce and store.  *)
CreateDailySummary(st, t, br, packets, sumOut, evOut, calOk) ==
    LET daily   == IF sumOut = "None" THEN "" ELSE sumOut
        sp      == SummaryPacket(t, daily)
        st1     == IF br = "codex"
                   THEN [st EXCEPT !.last = Some(daily),
                                   !.long = Reinforce(@, sp),
                                   !.archive = Store(@, <<sp>>)]
                   ELSE [st EXCEPT !.last = Some(daily)]
        pre     == IF br = "codex" THEN <<sp>> ELSE <<>>
        sched   == evOut.kind = "dict"
        st2     == IF sched THEN ScheduleEvent(st1, t, evOut) ELSE st1
        done    == ArchivePruned([long |-> st2.long, archive |-> st2.archive,
                                  reinforced |-> pre, stored |-> pre], packets)
        st3     == [st2 EXCEPT !.long = done.long, !.archive = done.archive]
    IN  IF sumOut = "TypeError"
        THEN [tiers |-> st, raised |-> TRUE, reinforced |-> <<>>, stored |-> <<>>]
        ELSE IF sched /\ ~calOk
        THEN [tiers |-> st1, raised |-> TRUE, reinforced |-> pre, stored |-> pre]
        ELSE [tiers |-> st3, raised |-> FALSE,
              reinforced |-> done.reinforced, stored |-> done.stored]

(* consolidate, up to and including the decay; the dream step follows. *)
ConsolidateTiers(st, t, br, sumOut, evOut, calOk) ==
    LET pr   == Prune(st.short, t)
        st1  == [st EXCEPT !.short = pr.kept]
        cr   == IF pr.old # <<>>
                THEN CreateDailySummary(st1, t, br, pr.old, sumOut, evOut, calOk)
                ELSE [tiers |-> st1, raised |-> FALSE, reinforced |-> <<>>, stored |-> <<>>]
        sw   == Sweep(cr.tiers.mid, t)
        dc   == Decay(cr.tiers.long, DefaultThreshold)
        st2  == [cr.tiers EXCEPT !.mid = sw.rows,
                                 !.long = dc.kept,
                                 !.archive = Store(Store(@, sw.packets), dc.archived)]
    IN  IF cr.raised
        THEN [tiers |-> cr.tiers, raised |-> TRUE, pruned |-> pr.old,
              reinforced |-> cr.reinforced, stored |-> cr.stored,
              expired |-> <<>>, demoted |-> <<>>, swept |-> {}]
        ELSE [tiers |-> st2, raised |-> FALSE, pruned |-> pr.old,
              reinforced |-> cr.reinforced,
              stored |-> cr.stored \o sw.packets \o dc.archived,
              expired |-> sw.packets, demoted |-> dc.archived, swept |-> sw.ids]

(* the strings the model uses that begin with "Proactive Reminder" *)
MarkedTexts == {ReminderPacket(0, "ev", 0).text}
StartsWithMarker(text) == text \in MarkedTexts

Threads == {1, 2}

(* no packet object has been created yet *)
NoObjects == [heap |-> <<>>, active |-> <<>>, short |-> <<>>]

(* MemoryCoordinator.__init__: the tier files are named after the user id *)
Users == {"A", "B"}
StorageKeys == {"A", "B", "default"}
EmptyTiers ==
    [active |-> <<>>, short |-> <<>>, mid |-> <<>>, next_id |-> 1, long |-> <<>>,
     archive |-> <<>>, last |-> None]

(* EmotionalHygiene.__init__ without a config file *)
UserIntervalMinutes == 60
SelfIntervalMinutes == 10
NewHygiene ==
    [user_interval |-> UserIntervalMinutes * 60,
     self_interval |-> SelfIntervalMinutes * 60,
     last_user_offer |-> 0, last_self_check |-> 0]

(* The state right after construction, over the given stored collections *)
Start(lo, mi, nid, ar) ==
    /\ now = StartTime
    /\ active = <<>>
    /\ active_maxlen = ActiveMaxLen
    /\ short = <<>>
    /\ short_file = <<>>
    /\ mid = mi
    /\ next_id = nid
    /\ long = lo
    /\ long_file = lo
    /\ archive = ar
    /\ calendar = <<>>
    /\ clair_calendar = <<>>
    /\ last_daily_summary = None
    /\ ret = Ret("init")
    /\ count = [adds |-> 0, consolidates |-> 0, long_ops |-> 0]
    /\ pc = [t \in Threads |-> "idle"]
    /\ sel = [t \in Threads |-> <<>>]
    /\ hist = [swept |-> <<>>, demoted |-> <<>>, pushed |-> <<>>, scheduled |-> <<>>,
               cheer_user |-> None, cheer_self |-> None]
    /\ disk = [short |-> "ok", mid |-> "ok", long |-> "ok", archive |-> "ok"]
    /\ tmp = None
    /\ local = [t \in Threads |-> <<>>]
    /\ objs = NoObjects
    /\ store = [k \in StorageKeys |-> EmptyTiers]
    /\ hygiene = NewHygiene

Init ==
    /\ branch \in {"codex", "main"}
    /\ Start(<<>>, <<>>, 1, <<>>)

(* add_packet *)
AddPacket ==
    /\ count.adds < MaxPackets
    /\ \E p \in PacketInputs(now) :
        /\ active' = Push(active, p)
        /\ short' = Append(short, p)
        /\ short_file' = short'
        /\ IF Truthy(p.expiry)
           THEN /\ mid' = MidAdd(mid, next_id, p, p.expiry[1])
                /\ next_id' = next_id + 1
           ELSE UNCHANGED <<mid, next_id>>
        /\ IF p.salience >= PromoteThreshold
           THEN /\ long' = Reinforce(long, p)
                /\ long_file' = long'
                /\ ret' = [Ret("add_packet") EXCEPT !.arg = <<p>>, !.reinforced = <<p>>]
           ELSE /\ UNCHANGED <<long, long_file>>
                /\ ret' = [Ret("add_packet") EXCEPT !.arg = <<p>>]
    /\ count' = [count EXCEPT !.adds = @ + 1]
    /\ UNCHANGED <<now, branch, objs, store, hygiene, active_maxlen, archive, calendar, clair_calendar,
                   last_daily_summary, pc, sel, hist, disk,
                   tmp, local>>

(* consolidate, with the dream step that ends it.  A collaborator's       *)
(* outcome is drawn only when the call that consumes it is reached.        *)
Consolidate ==
    /\ count.consolidates < MaxConsolidate
    /\ \E sumOut \in IF Prune(short, now).old = <<>>
                      THEN {"None"} ELSE SummaryOutcomes :
       \E evOut \in IF Prune(short, now).old = <<>> \/ sumOut = "TypeError"
                     THEN {[kind |-> "None", date |-> None]} ELSE EventOutcomes :
       \E calOk \in IF evOut.kind = "dict" THEN BOOLEAN ELSE {TRUE} :
       \E r \in {ConsolidateTiers(
                    TiersOf(short, mid, next_id, long, archive, calendar,
                            last_daily_summary),
                    now, branch, sumOut, evOut, calOk)} :
       \E dream \in {~r.raised
                      /\ (branch = "codex"
                          \/ (r.tiers.last # None /\ r.tiers.last[1] # ""))} :
       \E dreamOk \in IF dream THEN BOOLEAN ELSE {TRUE} :
            /\ short' = r.tiers.short
            /\ short_file' = IF r.pruned # <<>> THEN r.tiers.short ELSE short_file
            /\ mid' = r.tiers.mid
            /\ next_id' = r.tiers.next_id
            /\ long' = r.tiers.long
            /\ long_file' = IF r.raised /\ r.reinforced = <<>>
                            THEN long_file ELSE r.tiers.long
            /\ archive' = r.tiers.archive
            /\ calendar' = r.tiers.calendar
            /\ last_daily_summary' =
                    IF dream /\ dreamOk /\ branch = "main" THEN None ELSE r.tiers.last
            /\ ret' = [Ret("consolidate") EXCEPT
                            !.raised = r.raised \/ (dream /\ ~dreamOk),
                            !.pruned = r.pruned, !.reinforced = r.reinforced,
                            !.stored = r.stored, !.expired = r.expired,
                            !.demoted = r.demoted,
                            !.llm = IF r.pruned = <<>> THEN <<>>
                                    ELSE IF sumOut = "TypeError" THEN <<sumOut>>
                                    ELSE <<sumOut, evOut.kind>>,
                            !.event = evOut.date,
                            !.faults =
                                (IF evOut.kind = "dict" /\ ~calOk
                                 THEN {"calendar"} ELSE {})
                                \cup (IF dream /\ ~dreamOk THEN {"dream"} ELSE {})]
    /\ count' = [count EXCEPT !.consolidates = @ + 1]
    /\ UNCHANGED <<now, branch, objs, store, hygiene, active, active_maxlen, clair_calendar, pc, sel, hist, disk,
                   tmp, local>>

(* PersonalCalendar.list_events: the events of one date, in file order *)
ListEvents(events, date) == SelectSeq(events, LAMBDA e : e.date = date)

(* CuriosityEngine.maybe_ask for the context check_proactive_events builds: *)
(* every gate before the draw passes, the draw against the score gives up   *)
(* (None) or goes on, and _craft_question picks one candidate: the          *)
(* templates of the topics found in "I went to <title> yesterday", or the   *)
(* base templates when no topic is found.                                   *)
Titles == {"ev", "party"}

Candidates(title) ==
    IF title = "party"
    THEN {"Seen any friends recently?",
          "Anyone I should remember to ask you about?"}
    ELSE {"Noticed that. Want to tell me a bit more about it?",
          "What do you enjoy most about that?"}

MaybeAsk(title) == {None} \cup {Some(q) : q \in Candidates(title)}

(* Python truthiness of an Optional[str] *)
TruthyStr(opt) == opt # None /\ opt[1] # ""

FollowupTemplate(title) == "How did " \o title \o " go yesterday?"

(* A variant that puts the template beside the collaborator's question *)
FollowupBoth(question, title) ==
    IF TruthyStr(question) THEN <<question[1], FollowupTemplate(title)>>
    ELSE <<FollowupTemplate(title)>>

(* the entries one event adds to followups *)
Followup(question, title) ==
    IF TruthyStr(question) THEN <<question[1]>> ELSE <<FollowupTemplate(title)>>

RECURSIVE Followups(_, _)
Followups(events, questions) ==
    IF events = <<>> THEN <<>>
    ELSE Followup(questions[1], events[1].title)
            \o Followups(Tail(events), Tail(questions))

(* A variant that reports every swept packet as a reminder *)
RemindersAll(expired) == [i \in DOMAIN expired |-> expired[i].text]

(* the reminders list of check_proactive_events *)
Reminders(expired) ==
    LET hit == SelectSeq(expired, LAMBDA p : StartsWithMarker(p.text))
    IN  [i \in DOMAIN hit |-> hit[i].text]

(* check_proactive_events: the sweep, the reminders and the follow-ups *)
CheckProactiveEvents ==
    LET sw == Sweep(mid, now)
        yesterday == DateOf(now - Day)
        evs == ListEvents(calendar, yesterday)
    IN  /\ mid' = sw.rows
        /\ \E questions \in
                {qs \in [DOMAIN evs -> UNION {MaybeAsk(t) : t \in Titles}] :
                    \A i \in DOMAIN evs : qs[i] \in MaybeAsk(evs[i].title)} :
            ret' = [Ret("check_proactive_events") EXCEPT
                        !.expired = sw.packets,
                        !.reminders = Reminders(sw.packets),
                        !.arg = questions,
                        !.followups = Followups(evs, questions)]
        /\ UNCHANGED <<now, branch, objs, store, hygiene, active, active_maxlen, short, short_file, next_id, long,
                       long_file, archive, calendar, clair_calendar,
                       last_daily_summary, count, pc, sel, hist, disk,
                       tmp, local>>

(* purge_archive *)
AgeInputs == {0, 30}
ThresholdInputs == {3 * (Scale \div 10), 6 * (Scale \div 10)}

PurgeArchive ==
    /\ \E days \in AgeInputs, thr \in ThresholdInputs :
        /\ archive' = PurgeOldMemories(archive, now, days, thr)
        /\ ret' = [Ret("purge_archive") EXCEPT
                        !.params = <<days, thr>>,
                        !.dropped = SelectSeq(archive, LAMBDA l :
                            l \notin Range(PurgeOldMemories(archive, now, days, thr)))]
    /\ UNCHANGED <<now, branch, objs, store, hygiene, active, active_maxlen, short, short_file, mid, next_id, long,
                   long_file, calendar, clair_calendar, last_daily_summary, count, pc, sel, hist, disk,
                   tmp, local>>

(* the clock *)
Advance ==
    /\ now < StartTime + MaxTicks * Tick
    /\ now' = now + Tick
    /\ ret' = Ret("tick")
    /\ UNCHANGED <<branch, objs, store, hygiene, active, active_maxlen, short, short_file, mid, next_id, long, long_file,
                   archive, calendar, clair_calendar, last_daily_summary, count, pc, sel, hist, disk,
                   tmp, local>>

Next == AddPacket \/ Consolidate \/ CheckProactiveEvents \/ Advance

Spec == Init /\ [][Next]_vars

----------------------------------------------------------------------------
(* The read operations and the purge beside the writing ones.              *)

(* str.lower() and the `in` test of search and query, for one-letter        *)
(* queries: Letters(text) is the set of letters of text.lower().            *)
Lower(q) == CASE q = "A" -> "a" [] q = "B" -> "b" [] OTHER -> q

Letters(text) ==
    IF text \in {"a", "b", "A", "B"} THEN {Lower(text)}
    ELSE IF StartsWithMarker(text)
    THEN {"p", "r", "o", "a", "c", "t", "i", "v", "e", "m", "n", "d", "k", "h",
          "l", "b", "u", "g"}
    ELSE {"d", "a", "i", "l", "y", "s", "u", "m", "r"}

Contains(text, query) == Lower(query) \in Letters(text)

(* long_term.py *)
Query(entries, text) == SelectSeq(entries, LAMBDA e : Contains(e.text, text))

(* archive.py *)
(* A variant that takes a record having any one of the query tags *)
FetchByAnyTag(lines, tags) ==
    LET hit == SelectSeq(lines, LAMBDA l :
                    Range(tags) \cap Range(JsonLoads(l).tags) # {})
    IN  [i \in DOMAIN hit |-> JsonLoads(hit[i])]

FetchByTags(lines, tags) ==
    LET hit == SelectSeq(lines, LAMBDA l :
                    Range(tags) \subseteq Range(JsonLoads(l).tags))
    IN  [i \in DOMAIN hit |-> JsonLoads(hit[i])]

Queries == {"A"}
TagInputs == {<<"reminder">>}

(* A variant of search that also looks into the archive *)
SearchRecalls(entries, stored, query) ==
    SelectSeq(entries, LAMBDA p : Contains(p.text, query))
        \o Query(stored, query)
        \o Query(Packets([i \in DOMAIN archive |-> [data |-> archive[i]]]), query)

(* the result list of search *)
SearchResults(entries, stored, query) ==
    SelectSeq(entries, LAMBDA p : Contains(p.text, query)) \o Query(stored, query)

(* search *)
Search ==
    /\ \E query \in Queries :
        ret' = [Ret("search") EXCEPT
                    !.params = <<query>>,
                    !.arg = SearchResults(short, long, query)]
    /\ UNCHANGED <<now, branch, objs, store, hygiene, active, active_maxlen, short, short_file, mid, next_id, long,
                   long_file, archive, calendar, clair_calendar, last_daily_summary, count, pc,
                   sel, hist, disk, tmp, local>>

(* archive.fetch_by_tags *)
ArFetchByTags ==
    /\ \E tags \in TagInputs :
        ret' = [Ret("fetch_by_tags") EXCEPT
                    !.params = <<tags>>,
                    !.arg = FetchByTags(archive, tags)]
    /\ UNCHANGED <<now, branch, objs, store, hygiene, active, active_maxlen, short, short_file, mid, next_id, long,
                   long_file, archive, calendar, clair_calendar, last_daily_summary, count, pc,
                   sel, hist, disk, tmp, local>>

NextOps ==
    \/ AddPacket
    \/ Consolidate
    \/ CheckProactiveEvents
    \/ Search
    \/ ArFetchByTags
    \/ PurgeArchive
    \/ Advance

SpecOps == Init /\ [][NextOps]_vars

(* The same operations over a Long-Term file that holds an entry at the    *)
(* demotion threshold, which the next decay demotes unless it is           *)
(* reinforced first.                                                       *)
StaleStores ==
    {<<ToDict(MemoryPacket(StartTime, "a", <<>>, <<>>, DefaultThreshold, None))>>}

InitStale ==
    /\ branch \in {"codex", "main"}
    /\ \E st \in StaleStores : Start(st, <<>>, 1, <<>>)

SpecStale == InitStale /\ [][NextOps]_vars

----------------------------------------------------------------------------
(* LongTermMemory used on its own: reinforce and decay from an empty store *)
LongSalienceInputs ==
    {21 * (Scale \div 100), 5 * (Scale \div 10), 9 * (Scale \div 10),
     15 * (Scale \div 10)}
LongPacketInputs(t) ==
    {MemoryPacket(t, text, <<>>, <<>>, sal, None) :
        text \in Texts, sal \in LongSalienceInputs}
DecayThresholds == {DefaultThreshold, 5 * (Scale \div 10)}

Texts_(entries) == [i \in DOMAIN entries |-> entries[i].text]

LtReinforce ==
    /\ count.long_ops < MaxLongOps
    /\ \E p \in LongPacketInputs(now) :
        /\ long' = Reinforce(long, p)
        /\ ret' = [Ret("reinforce") EXCEPT !.arg = <<p>>]
    /\ long_file' = long'
    /\ count' = [count EXCEPT !.long_ops = @ + 1]
    /\ UNCHANGED <<now, branch, objs, store, hygiene, active, active_maxlen, short, short_file, mid, next_id, archive,
                   calendar, clair_calendar, last_daily_summary, pc, sel, hist, disk,
                   tmp, local>>

DecayCall(threshold) ==
    LET d == Decay(long, threshold)
    IN  /\ long' = d.kept
        /\ long_file' = long'
        /\ ret' = [Ret("decay") EXCEPT !.params = <<threshold>>,
                                       !.demoted = d.archived]
        /\ hist' = [hist EXCEPT !.demoted = @ \o Texts_(d.archived)]
        /\ UNCHANGED <<now, branch, objs, store, hygiene, active, active_maxlen, short, short_file, mid, next_id,
                       archive, calendar, clair_calendar, last_daily_summary, pc, sel, disk,
                   tmp, local>>

LtDecay ==
    /\ count.long_ops < MaxLongOps
    /\ \E threshold \in DecayThresholds : DecayCall(threshold)
    /\ count' = [count EXCEPT !.long_ops = @ + 1]

NextLong == LtReinforce \/ LtDecay

SpecLong == Init /\ [][NextLong]_vars

(* decay() called again and again on a store that reinforce has filled *)
InitialStores ==
    {<<>>}
    \cup {<<ToDict(p)>> : p \in LongPacketInputs(StartTime)}
    \cup {<<ToDict(p), ToDict(q)>> : p \in {x \in LongPacketInputs(StartTime) : x.text = "a"},
                                    q \in {x \in LongPacketInputs(StartTime) : x.text = "b"}}

InitDecay ==
    /\ branch = "main"
    /\ \E st \in InitialStores : Start(st, <<>>, 1, <<>>)

RepeatedDecay ==
    /\ DecayCall(DefaultThreshold)
    /\ UNCHANGED count

NextDecay == RepeatedDecay

SpecDecay == InitDecay /\ [][NextDecay]_vars /\ WF_vars(RepeatedDecay)

----------------------------------------------------------------------------
(* MidTermMemory used on its own by one caller *)
MidPacketInputs(t) ==
    {MemoryPacket(t, text, <<>>, <<>>, 5 * (Scale \div 10), None) : text \in Texts}
MidExpiryInputs == {StartTime - Tick, StartTime + Tick, StartTime + 2 * Tick}

MtAdd ==
    /\ next_id <= MaxRows
    /\ \E p \in MidPacketInputs(now), expiry \in MidExpiryInputs :
        /\ mid' = MidAdd(mid, next_id, p, expiry)
        /\ ret' = [Ret("add") EXCEPT !.arg = <<p>>, !.params = <<expiry>>]
    /\ next_id' = next_id + 1
    /\ UNCHANGED <<now, branch, objs, store, hygiene, active, active_maxlen, short, short_file, long, long_file, archive,
                   calendar, clair_calendar, last_daily_summary, count, pc, sel, hist, disk,
                   tmp, local>>

MtSweep ==
    LET sw == Sweep(mid, now)
    IN  /\ mid' = sw.rows
        /\ ret' = [Ret("sweep") EXCEPT !.expired = sw.packets]
        /\ hist' = [hist EXCEPT !.swept = @ \o [i \in DOMAIN SweepSelect(mid, now) |->
                                                    SweepSelect(mid, now)[i].id]]
        /\ UNCHANGED <<now, branch, objs, store, hygiene, active, active_maxlen, short, short_file, next_id, long,
                       long_file, archive, calendar, clair_calendar, last_daily_summary, count,
                       pc, sel, disk,
                   tmp, local>>

MtFetchActive ==
    /\ ret' = [Ret("fetch_active") EXCEPT !.arg = FetchActive(mid, now)]
    /\ UNCHANGED <<now, branch, objs, store, hygiene, active, active_maxlen, short, short_file, mid, next_id, long,
                   long_file, archive, calendar, clair_calendar, last_daily_summary, count, pc,
                   sel, hist, disk,
                   tmp, local>>

NextMid == MtAdd \/ MtSweep \/ MtFetchActive \/ Advance

SpecMid == Init /\ [][NextMid]_vars

(* Two threads inside sweep() on the same database file.  Each statement   *)
(* is atomic in SQLite; the SELECT and the DELETE of one call are two      *)
(* statements, and nothing in MidTermMemory holds a lock across them.      *)
SwSelect(t) ==
    /\ pc[t] = "idle"
    /\ sel' = [sel EXCEPT ![t] = SweepSelect(mid, now)]
    /\ pc' = [pc EXCEPT ![t] = "fetched"]
    /\ ret' = Ret("select")
    /\ UNCHANGED <<now, branch, objs, store, hygiene, active, active_maxlen, short, short_file, mid, next_id, long,
                   long_file, archive, calendar, clair_calendar, last_daily_summary, count, hist, disk,
                   tmp, local>>

SwDelete(t) ==
    /\ pc[t] = "fetched"
    /\ mid' = IF Ids(sel[t]) # {} THEN SweepDelete(mid, Ids(sel[t])) ELSE mid
    /\ pc' = [pc EXCEPT ![t] = "done"]
    /\ ret' = [Ret("sweep") EXCEPT !.expired = Packets(sel[t])]
    /\ UNCHANGED <<now, branch, objs, store, hygiene, active, active_maxlen, short, short_file, next_id, long,
                   long_file, archive, calendar, clair_calendar, last_daily_summary, count, sel,
                   hist, disk,
                   tmp, local>>

NextSweep == MtAdd \/ (\E t \in Threads : SwSelect(t)) \/ (\E t \in Threads : SwDelete(t))

SpecSweep == Init /\ [][NextSweep]_vars

----------------------------------------------------------------------------
(* ArchiveMemory used on its own: store and purge *)
ArchiveSalienceInputs == {Scale \div 10, 5 * (Scale \div 10)}
ArchiveAgeInputs == {10 * Day, 40 * Day}
ArchivePacketInputs(t) ==
    {MemoryPacket(t - age, "a", <<>>, <<>>, sal, None) :
        age \in ArchiveAgeInputs, sal \in ArchiveSalienceInputs}

ArStore ==
    /\ Len(archive) < MaxRecords
    /\ \E p \in ArchivePacketInputs(now) :
        /\ archive' = Store(archive, <<p>>)
        /\ ret' = [Ret("store") EXCEPT !.arg = <<p>>, !.stored = <<p>>]
    /\ UNCHANGED <<now, branch, objs, store, hygiene, active, active_maxlen, short, short_file, mid, next_id, long,
                   long_file, calendar, clair_calendar, last_daily_summary, count, pc, sel, hist, disk,
                   tmp, local>>

NextArchive == ArStore \/ PurgeArchive \/ Advance

SpecArchive == Init /\ [][NextArchive]_vars

----------------------------------------------------------------------------
(* ArchiveMemory used on its own: store of tagged packets and fetch_by_tags *)
StoredTagInputs ==
    {<<>>, <<"reminder">>, <<"daily_summary">>, <<"reminder", "daily_summary">>}
TagQueryInputs ==
    {<<>>, <<"reminder">>, <<"daily_summary", "reminder">>, <<"reminder", "reminder">>}
TaggedPacketInputs(t) ==
    {MemoryPacket(t, "a", <<>>, tags, 5 * (Scale \div 10), None) :
        tags \in StoredTagInputs}

TgStore ==
    /\ Len(archive) < MaxRecords
    /\ \E p \in TaggedPacketInputs(now) :
        /\ archive' = Store(archive, <<p>>)
        /\ ret' = [Ret("store") EXCEPT !.arg = <<p>>, !.stored = <<p>>]
    /\ UNCHANGED <<now, branch, objs, store, hygiene, active, active_maxlen, short, short_file, mid,
                   next_id, long, long_file, calendar, clair_calendar,
                   last_daily_summary, count, pc, sel, hist, disk, tmp, local>>

TgFetchByTags ==
    /\ \E tags \in TagQueryInputs :
        ret' = [Ret("fetch_by_tags") EXCEPT
                    !.params = <<tags>>,
                    !.arg = FetchByTags(archive, tags)]
    /\ UNCHANGED <<now, branch, objs, store, hygiene, active, active_maxlen, short, short_file, mid,
                   next_id, long, long_file, archive, calendar, clair_calendar,
                   last_daily_summary, count, pc, sel, hist, disk, tmp, local>>

NextTags == TgStore \/ TgFetchByTags

SpecTags == Init /\ [][NextTags]_vars

----------------------------------------------------------------------------
(* purge_old_memories statement by statement: the two gzip.open calls, one  *)
(* loop iteration per line, and tmp_path.replace.  The process may die, or  *)
(* a read or write may raise, before any of them; the .tmp file then stays  *)
(* as it was written.  One caller: nothing is stored while a purge runs.    *)

(* A variant that opens the archive itself for writing *)
PurgeOpenInPlace(lines) == [archive |-> <<>>, tmp |-> Some(<<>>)]

(* gzip.open(self.path, "rb") as src, gzip.open(tmp_path, "wb") as dst *)
PurgeOpen(lines) == [archive |-> lines, tmp |-> Some(<<>>)]

(* one iteration of `for line in src` *)
PurgeCopy(written, line, cutoff, salience_threshold) ==
    IF JsonLoads(line).timestamp < cutoff
       /\ JsonLoads(line).salience < salience_threshold
    THEN written
    ELSE Append(written, line)

PgStore ==
    /\ pc[1] = "idle"
    /\ ArStore

PgOpen ==
    /\ pc[1] = "idle"
    /\ archive # <<>>
    /\ \E days \in AgeInputs, thr \in ThresholdInputs :
        /\ local' = [local EXCEPT ![1] =
                        [before |-> archive, read |-> 0, days |-> days,
                         cutoff |-> now - days * Day, threshold |-> thr]]
        /\ ret' = [Ret("purge_open") EXCEPT !.params = <<days, thr>>]
    /\ archive' = PurgeOpen(archive).archive
    /\ tmp' = PurgeOpen(archive).tmp
    /\ pc' = [pc EXCEPT ![1] = "copying"]
    /\ UNCHANGED <<now, branch, objs, store, hygiene, active, active_maxlen, short, short_file, mid, next_id, long,
                   long_file, calendar, clair_calendar, last_daily_summary, count, sel, hist, disk>>

PgCopy ==
    /\ pc[1] = "copying"
    /\ local[1].read < Len(archive)
    /\ tmp' = Some(PurgeCopy(tmp[1], archive[local[1].read + 1],
                             local[1].cutoff, local[1].threshold))
    /\ local' = [local EXCEPT ![1].read = @ + 1]
    /\ ret' = [Ret("purge_copy") EXCEPT !.params = <<local[1].days, local[1].threshold>>]
    /\ UNCHANGED <<now, branch, objs, store, hygiene, active, active_maxlen, short, short_file, mid, next_id, long,
                   long_file, archive, calendar, clair_calendar, last_daily_summary, count, pc,
                   sel, hist, disk>>

PgReplace ==
    /\ pc[1] = "copying"
    /\ local[1].read = Len(archive)
    /\ archive' = tmp[1]
    /\ tmp' = None
    /\ pc' = [pc EXCEPT ![1] = "idle"]
    /\ local' = [local EXCEPT ![1] = <<>>]
    /\ ret' = [Ret("purge_archive") EXCEPT
                    !.params = <<local[1].days, local[1].threshold>>,
                    !.arg = local[1].before,
                    !.dropped = SelectSeq(archive, LAMBDA l : l \notin Range(tmp[1]))]
    /\ UNCHANGED <<now, branch, objs, store, hygiene, active, active_maxlen, short, short_file, mid, next_id, long,
                   long_file, calendar, clair_calendar, last_daily_summary, count, sel, hist, disk>>

(* the purge ends before tmp_path.replace: a crash, or an exception *)
PgFail ==
    /\ pc[1] = "copying"
    /\ pc' = [pc EXCEPT ![1] = "idle"]
    /\ local' = [local EXCEPT ![1] = <<>>]
    /\ ret' = [Ret("purge_archive") EXCEPT
                    !.raised = TRUE,
                    !.params = <<local[1].days, local[1].threshold>>,
                    !.arg = local[1].before]
    /\ UNCHANGED <<now, branch, objs, store, hygiene, active, active_maxlen, short, short_file, mid, next_id, long,
                   long_file, archive, calendar, clair_calendar, last_daily_summary, count, sel,
                   hist, disk, tmp>>

NextPurge == PgStore \/ PgOpen \/ PgCopy \/ PgReplace \/ PgFail \/ Advance

SpecPurge == Init /\ [][NextPurge]_vars

----------------------------------------------------------------------------
(* ShortTermMemory used on its own by one caller; a save may fail *)
ShortAgeInputs == {0, 24 * Hour, 25 * Hour}
ShortPacketInputs(t) ==
    {MemoryPacket(t - age, "a", <<>>, <<>>, 5 * (Scale \div 10), None) :
        age \in ShortAgeInputs}
HoursInputs == {1, 24, 48}

StAdd ==
    /\ Len(short) < MaxEntries
    /\ \E p \in ShortPacketInputs(now), outcome \in SaveOutcomes :
        /\ short' = Append(short, p)
        /\ short_file' = Save(short', short_file, disk.short, outcome).file
        /\ disk' = [disk EXCEPT !.short =
                        Save(short', short_file, disk.short, outcome).state]
        /\ ret' = [Ret("add") EXCEPT
                        !.arg = <<p>>,
                        !.faults = IF outcome = "ok" THEN {} ELSE {"short"}]
    /\ UNCHANGED <<now, branch, objs, store, hygiene, active, active_maxlen, mid, next_id, long, long_file, archive,
                   calendar, clair_calendar, last_daily_summary, count, pc, sel, hist, tmp, local>>

StGetRecent ==
    /\ \E hours \in HoursInputs :
        ret' = [Ret("get_recent") EXCEPT
                    !.params = <<hours>>,
                    !.arg = GetRecent(short, now, hours)]
    /\ UNCHANGED <<now, branch, objs, store, hygiene, active, active_maxlen, short, short_file, mid, next_id, long,
                   long_file, archive, calendar, clair_calendar, last_daily_summary, count, pc,
                   sel, hist, disk, tmp, local>>

StPrune ==
    /\ \E outcome \in IF Prune(short, now).old # <<>> THEN SaveOutcomes ELSE {"ok"} :
        LET pr == Prune(short, now)
            sv == Save(pr.kept, short_file, disk.short, outcome)
        IN  /\ short' = IF pr.old # <<>> THEN pr.kept ELSE short
            /\ short_file' = IF pr.old # <<>> THEN sv.file ELSE short_file
            /\ disk' = IF pr.old # <<>> THEN [disk EXCEPT !.short = sv.state] ELSE disk
            /\ ret' = [Ret("prune") EXCEPT
                            !.pruned = pr.old,
                            !.faults = IF outcome = "ok" THEN {} ELSE {"short"}]
    /\ UNCHANGED <<now, branch, objs, store, hygiene, active, active_maxlen, mid, next_id, long, long_file, archive,
                   calendar, clair_calendar, last_daily_summary, count, pc, sel, hist, tmp, local>>

NextShort == StAdd \/ StGetRecent \/ StPrune \/ Advance

SpecShort == Init /\ [][NextShort]_vars

----------------------------------------------------------------------------
(* add() on thread 1 and prune() on thread 2 of one ShortTermMemory.  The   *)
(* interpreter may switch threads between any two statements, and between  *)
(* building a list and binding it: append, the list _save serialises, the  *)
(* file write, the two list comprehensions of prune and the assignment to  *)
(* self.entries are steps of their own.  Nothing in the class holds a lock. *)
RcFill ==
    /\ \A t \in Threads : pc[t] = "idle"
    /\ StAdd

RcAppend ==
    /\ pc[1] = "idle"
    /\ \E p \in ShortPacketInputs(now) :
        /\ short' = Append(short, p)
        /\ local' = [local EXCEPT ![1] = [packet |-> p, doc |-> <<>>]]
    /\ pc' = [pc EXCEPT ![1] = "appended"]
    /\ ret' = Ret("append")
    /\ UNCHANGED <<now, branch, objs, store, hygiene, active, active_maxlen, short_file, mid, next_id, long, long_file,
                   archive, calendar, clair_calendar, last_daily_summary, count, sel, hist, disk,
                   tmp>>

RcDump(t) ==
    /\ pc[t] = IF t = 1 THEN "appended" ELSE "assigned"
    /\ local' = [local EXCEPT ![t].doc = [i \in DOMAIN short |-> ToDict(short[i])]]
    /\ pc' = [pc EXCEPT ![t] = "dumping"]
    /\ ret' = Ret("dump")
    /\ UNCHANGED <<now, branch, objs, store, hygiene, active, active_maxlen, short, short_file, mid, next_id, long,
                   long_file, archive, calendar, clair_calendar, last_daily_summary, count, sel,
                   hist, disk, tmp>>

RcWrite(t) ==
    /\ pc[t] = "dumping"
    /\ short_file' = local[t].doc
    /\ disk' = [disk EXCEPT !.short = "ok"]
    /\ pc' = [pc EXCEPT ![t] = "done"]
    /\ ret' = IF t = 1
              THEN [Ret("add") EXCEPT !.arg = <<local[t].packet>>]
              ELSE [Ret("prune") EXCEPT !.pruned = local[t].old]
    /\ UNCHANGED <<now, branch, objs, store, hygiene, active, active_maxlen, short, mid, next_id, long, long_file,
                   archive, calendar, clair_calendar, last_daily_summary, count, sel, hist, tmp,
                   local>>

RcSelectOld ==
    /\ pc[2] = "idle"
    /\ local' = [local EXCEPT ![2] =
                    [old |-> Prune(short, now).old, kept |-> <<>>, doc |-> <<>>]]
    /\ pc' = [pc EXCEPT ![2] = IF Prune(short, now).old # <<>>
                               THEN "selected" ELSE "done"]
    /\ ret' = IF Prune(short, now).old # <<>> THEN Ret("select_old") ELSE Ret("prune")
    /\ UNCHANGED <<now, branch, objs, store, hygiene, active, active_maxlen, short, short_file, mid, next_id, long,
                   long_file, archive, calendar, clair_calendar, last_daily_summary, count, sel,
                   hist, disk, tmp>>

RcFilter ==
    /\ pc[2] = "selected"
    /\ local' = [local EXCEPT ![2].kept = Prune(short, now).kept]
    /\ pc' = [pc EXCEPT ![2] = "filtered"]
    /\ ret' = Ret("filter")
    /\ UNCHANGED <<now, branch, objs, store, hygiene, active, active_maxlen, short, short_file, mid, next_id, long,
                   long_file, archive, calendar, clair_calendar, last_daily_summary, count, sel,
                   hist, disk, tmp>>

RcAssign ==
    /\ pc[2] = "filtered"
    /\ short' = local[2].kept
    /\ pc' = [pc EXCEPT ![2] = "assigned"]
    /\ ret' = Ret("assign")
    /\ UNCHANGED <<now, branch, objs, store, hygiene, active, active_maxlen, short_file, mid, next_id, long, long_file,
                   archive, calendar, clair_calendar, last_daily_summary, count, sel, hist, disk,
                   tmp, local>>

NextRace ==
    \/ RcFill
    \/ RcAppend
    \/ RcSelectOld
    \/ RcFilter
    \/ RcAssign
    \/ \E t \in Threads : RcDump(t)
    \/ \E t \in Threads : RcWrite(t)

SpecRace == Init /\ [][NextRace]_vars

----------------------------------------------------------------------------
(* reinforce() on thread 1 and reinforce() or decay() on thread 2 of one    *)
(* LongTermMemory.  The scan of reinforce, its update or append, the loop   *)
(* of decay (which multiplies the saliences in place and collects the kept  *)
(* entries), the assignment of the kept list and each _save are steps of    *)
(* their own; nothing in the class holds a lock.  The kept entries are      *)
(* held by position: the objects of the list as it was when the loop ran.   *)
LongCall(kind, packet) == [kind |-> kind, packet |-> packet]

LongCalls(t) ==
    {LongCall("reinforce", p) : p \in LongPacketInputs(t)}
    \cup {LongCall("decay", MemoryPacket(t, "", <<>>, <<>>, 0, None))}

RlBegin ==
    /\ \A t \in Threads : pc[t] = "idle"
    /\ \E c1 \in {c \in LongCalls(now) : c.kind = "reinforce"}, c2 \in LongCalls(now) :
        local' = [t \in Threads |->
                    [call |-> IF t = 1 THEN c1 ELSE c2, start |-> long, kept |-> <<>>]]
    /\ pc' = [t \in Threads |-> "ready"]
    /\ ret' = Ret("begin")
    /\ UNCHANGED <<now, branch, objs, store, hygiene, active, active_maxlen, short, short_file, mid, next_id, long,
                   long_file, archive, calendar, clair_calendar, last_daily_summary, count, sel,
                   hist, disk, tmp>>

RlScan(t) ==
    /\ pc[t] = "ready"
    /\ local[t].call.kind = "reinforce"
    /\ pc' = [pc EXCEPT ![t] = IF FindText(long, local[t].call.packet.text) # 0
                               THEN "found" ELSE "missing"]
    /\ ret' = Ret("scan")
    /\ UNCHANGED <<now, branch, objs, store, hygiene, active, active_maxlen, short, short_file, mid, next_id, long,
                   long_file, archive, calendar, clair_calendar, last_daily_summary, count, sel,
                   hist, disk, tmp, local>>

RlUpdate(t) ==
    /\ pc[t] = "found"
    /\ long' = LET i == FindText(long, local[t].call.packet.text)
               IN  IF i # 0
                   THEN [long EXCEPT ![i].salience =
                            Min(SalienceCap, @ + ReinforceIncrement)]
                   ELSE long
    /\ pc' = [pc EXCEPT ![t] = "saving"]
    /\ ret' = Ret("update")
    /\ UNCHANGED <<now, branch, objs, store, hygiene, active, active_maxlen, short, short_file, mid, next_id, long_file,
                   archive, calendar, clair_calendar, last_daily_summary, count, sel, hist, disk,
                   tmp, local>>

RlAppend(t) ==
    /\ pc[t] = "missing"
    /\ long' = Append(long, ToDict(local[t].call.packet))
    /\ pc' = [pc EXCEPT ![t] = "saving"]
    /\ ret' = Ret("append")
    /\ UNCHANGED <<now, branch, objs, store, hygiene, active, active_maxlen, short, short_file, mid, next_id, long_file,
                   archive, calendar, clair_calendar, last_daily_summary, count, sel, hist, disk,
                   tmp, local>>

RlDecayLoop(t) ==
    /\ pc[t] = "ready"
    /\ local[t].call.kind = "decay"
    /\ long' = [i \in DOMAIN long |-> [long[i] EXCEPT !.salience = Times99(@)]]
    /\ local' = [local EXCEPT ![t].kept =
                    SelectSeq([i \in DOMAIN long |-> i],
                              LAMBDA i : Times99(long[i].salience) >= DefaultThreshold)]
    /\ pc' = [pc EXCEPT ![t] = "looped"]
    /\ ret' = Ret("loop")
    /\ UNCHANGED <<now, branch, objs, store, hygiene, active, active_maxlen, short, short_file, mid, next_id, long_file,
                   archive, calendar, clair_calendar, last_daily_summary, count, sel, hist, disk,
                   tmp>>

RlDecayAssign(t) ==
    /\ pc[t] = "looped"
    /\ long' = [k \in DOMAIN local[t].kept |-> long[local[t].kept[k]]]
    /\ pc' = [pc EXCEPT ![t] = "saving"]
    /\ ret' = Ret("assign")
    /\ UNCHANGED <<now, branch, objs, store, hygiene, active, active_maxlen, short, short_file, mid, next_id, long_file,
                   archive, calendar, clair_calendar, last_daily_summary, count, sel, hist, disk,
                   tmp, local>>

RlSave(t) ==
    /\ pc[t] = "saving"
    /\ long_file' = long
    /\ pc' = [pc EXCEPT ![t] = "done"]
    /\ ret' = Ret(local[t].call.kind)
    /\ UNCHANGED <<now, branch, objs, store, hygiene, active, active_maxlen, short, short_file, mid, next_id, long,
                   archive, calendar, clair_calendar, last_daily_summary, count, sel, hist, disk,
                   tmp, local>>

NextLongRace ==
    \/ RlBegin
    \/ \E t \in Threads : RlScan(t)
    \/ \E t \in Threads : RlUpdate(t)
    \/ \E t \in Threads : RlAppend(t)
    \/ \E t \in Threads : RlDecayLoop(t)
    \/ \E t \in Threads : RlDecayAssign(t)
    \/ \E t \in Threads : RlSave(t)

SpecLongRace == InitDecay /\ [][NextLongRace]_vars

----------------------------------------------------------------------------
(* ActiveMemory used on its own, constructed with a small capacity or the *)
(* default one                                                             *)
MaxPushes == 4

CapacityInputs == {1, 2, ActiveMaxLen}

InitActive ==
    /\ branch = "main"
    /\ now = StartTime
    /\ active = <<>>
    /\ active_maxlen \in CapacityInputs
    /\ short = <<>>
    /\ short_file = <<>>
    /\ mid = <<>>
    /\ next_id = 1
    /\ long = <<>>
    /\ long_file = <<>>
    /\ archive = <<>>
    /\ calendar = <<>>
    /\ clair_calendar = <<>>
    /\ last_daily_summary = None
    /\ ret = Ret("init")
    /\ count = [adds |-> 0, consolidates |-> 0, long_ops |-> 0]
    /\ pc = [t \in Threads |-> "idle"]
    /\ sel = [t \in Threads |-> <<>>]
    /\ hist = [swept |-> <<>>, demoted |-> <<>>, pushed |-> <<>>, scheduled |-> <<>>,
               cheer_user |-> None, cheer_self |-> None]
    /\ disk = [short |-> "ok", mid |-> "ok", long |-> "ok", archive |-> "ok"]
    /\ tmp = None
    /\ local = [t \in Threads |-> <<>>]
    /\ objs = NoObjects
    /\ store = [k \in StorageKeys |-> EmptyTiers]
    /\ hygiene = NewHygiene

AcPush ==
    /\ Len(hist.pushed) < MaxPushes
    /\ \E p \in MidPacketInputs(now) :
        /\ active' = Push(active, p)
        /\ hist' = [hist EXCEPT !.pushed = Append(@, p)]
        /\ ret' = [Ret("push") EXCEPT !.arg = <<p>>]
    /\ UNCHANGED <<now, branch, objs, store, hygiene, active_maxlen, short, short_file, mid, next_id,
                   long, long_file, archive, calendar, clair_calendar,
                   last_daily_summary, count, pc, sel, disk, tmp, local>>

AcSnapshot ==
    /\ ret' = [Ret("snapshot") EXCEPT !.arg = Snapshot(active)]
    /\ UNCHANGED <<now, branch, objs, store, hygiene, active, active_maxlen, short, short_file, mid,
                   next_id, long, long_file, archive, calendar, clair_calendar,
                   last_daily_summary, count, pc, sel, hist, disk, tmp, local>>

NextActive == AcPush \/ AcSnapshot

SpecActive == InitActive /\ [][NextActive]_vars

----------------------------------------------------------------------------
(* check_proactive_events over a calendar that has events and a Mid-Term  *)
(* that has rows: add_event of the calendar manager for either owner,      *)
(* MidTermMemory.add, and _schedule_event, which writes the "user"         *)
(* calendar and the reminder row.                                          *)
MaxEvents == 3

OwnerInputs == {"user", "clair"}
DateInputs == {DateOf(StartTime) - 1, DateOf(StartTime)}

CalAddEvent ==
    /\ Len(calendar) + Len(clair_calendar) < MaxEvents
    /\ \E who \in OwnerInputs, date \in DateInputs, title \in Titles :
        /\ IF who = "user"
           THEN /\ calendar' = CalendarAdd(calendar, Event(date, 0, title))
                /\ UNCHANGED clair_calendar
           ELSE /\ clair_calendar' = CalendarAdd(clair_calendar, Event(date, 0, title))
                /\ UNCHANGED calendar
        /\ ret' = [Ret("add_event") EXCEPT !.params = <<who, date, title>>]
    /\ UNCHANGED <<now, branch, objs, store, hygiene, active, active_maxlen, short, short_file, mid, next_id, long,
                   long_file, archive, last_daily_summary, count, pc, sel, hist,
                   disk, tmp, local>>

PeScheduleEvent ==
    /\ next_id <= MaxRows
    /\ \E d \in EventDays :
        LET st == ScheduleEvent(
                    TiersOf(short, mid, next_id, long, archive, calendar,
                            last_daily_summary),
                    now, [kind |-> "dict", date |-> Some(d)])
        IN  /\ calendar' = st.calendar
            /\ mid' = st.mid
            /\ next_id' = st.next_id
            /\ ret' = [Ret("_schedule_event") EXCEPT !.event = Some(d)]
    /\ UNCHANGED <<now, branch, objs, store, hygiene, active, active_maxlen, short, short_file, long, long_file,
                   archive, clair_calendar, last_daily_summary, count, pc, sel,
                   hist, disk, tmp, local>>

NextReminders ==
    \/ MtAdd
    \/ PeScheduleEvent
    \/ CheckProactiveEvents
    \/ Advance

SpecReminders == Init /\ [][NextReminders]_vars

NextFollowups ==
    \/ CalAddEvent
    \/ CheckProactiveEvents
    \/ Advance

SpecFollowups == Init /\ [][NextFollowups]_vars

----------------------------------------------------------------------------
(* Mid-Term as the Coordinator fills it, with add_packet and with          *)
(* _schedule_event, read by fetch_active and emptied by sweep               *)
NextPlaced ==
    \/ AddPacket
    \/ PeScheduleEvent
    \/ MtFetchActive
    \/ MtSweep
    \/ Advance

SpecPlaced == Init /\ [][NextPlaced]_vars

----------------------------------------------------------------------------
(* add_packet with the packet objects told apart.  active.push(packet) and *)
(* short.add(packet) keep the caller's object itself, while mid.add and    *)
(* long.reinforce keep packet.to_dict(), which dataclasses.asdict copies.   *)
(* objs.heap holds the objects by creation order; objs.active and          *)
(* objs.short hold, position by position, which object each tier refers    *)
(* to.  An assignment to a field of an object shows wherever the object    *)
(* is referred to.                                                          *)
Deref(heap, refs) == [i \in DOMAIN refs |-> heap[refs[i]]]

MutatedSalience == Scale \div 10

AlAddPacket ==
    /\ count.adds < MaxPackets
    /\ \E p \in PacketInputs(now) :
        LET id == Len(objs.heap) + 1
        IN  /\ objs' = [heap   |-> Append(objs.heap, p),
                        active |-> Push(objs.active, id),
                        short  |-> Append(objs.short, id)]
            /\ active' = Deref(objs'.heap, objs'.active)
            /\ short' = Deref(objs'.heap, objs'.short)
            /\ short_file' = short'
            /\ IF Truthy(p.expiry)
               THEN /\ mid' = MidAdd(mid, next_id, p, p.expiry[1])
                    /\ next_id' = next_id + 1
               ELSE UNCHANGED <<mid, next_id>>
            /\ IF p.salience >= PromoteThreshold
               THEN /\ long' = Reinforce(long, p)
                    /\ long_file' = long'
                    /\ ret' = [Ret("add_packet") EXCEPT !.arg = <<p>>, !.reinforced = <<p>>]
               ELSE /\ UNCHANGED <<long, long_file>>
                    /\ ret' = [Ret("add_packet") EXCEPT !.arg = <<p>>]
    /\ count' = [count EXCEPT !.adds = @ + 1]
    /\ UNCHANGED <<now, branch, store, hygiene, active_maxlen, archive, calendar,
                   clair_calendar, last_daily_summary, pc, sel, hist, disk, tmp,
                   local>>

(* the caller, after add_packet(packet) returned: packet.salience = 0.1 *)
AlAssign ==
    /\ \E id \in DOMAIN objs.heap :
        /\ objs.heap[id].salience # MutatedSalience
        /\ objs' = [objs EXCEPT !.heap[id].salience = MutatedSalience]
        /\ ret' = [Ret("assign") EXCEPT !.arg = <<objs.heap[id]>>, !.params = <<id>>]
    /\ active' = Deref(objs'.heap, objs.active)
    /\ short' = Deref(objs'.heap, objs.short)
    /\ UNCHANGED <<now, branch, store, hygiene, active_maxlen, short_file, mid,
                   next_id, long, long_file, archive, calendar, clair_calendar,
                   last_daily_summary, count, pc, sel, hist, disk, tmp, local>>

NextAlias == AlAddPacket \/ AlAssign \/ Advance

SpecAlias == Init /\ [][NextAlias]_vars

----------------------------------------------------------------------------
(* Two Coordinators under one storage root, created with the user ids A    *)
(* and B.  Each tier file is <root>/<tier>/<user_id>.<ext>, so the tiers    *)
(* of a Coordinator are the ones stored under its user id; the calendar is  *)
(* PersonalCalendar(CONFIG_DIR), whose two files do not carry the user id.  *)

(* A variant that names every tier file after the default user id *)
StorageKeyDefault(user_id) == "default"

(* the part of the tier file names that comes from the user id *)
StorageKey(user_id) == user_id

TiersFor(user_id) == store[StorageKey(user_id)]

UserEventOutcomes ==
    {[kind |-> "None", date |-> None],
     [kind |-> "dict", date |-> Some(DateOf(StartTime) + 1)]}

UsAddPacket ==
    /\ count.adds < MaxPackets
    /\ \E u \in Users, p \in PacketInputs(now) :
        LET t  == TiersFor(u)
            t1 == [t EXCEPT !.active = Push(@, p), !.short = Append(@, p)]
            t2 == IF Truthy(p.expiry)
                  THEN [t1 EXCEPT !.mid = MidAdd(@, t.next_id, p, p.expiry[1]),
                                  !.next_id = @ + 1]
                  ELSE t1
            t3 == IF p.salience >= PromoteThreshold
                  THEN [t2 EXCEPT !.long = Reinforce(@, p)]
                  ELSE t2
        IN  /\ store' = [store EXCEPT ![StorageKey(u)] = t3]
            /\ ret' = [Ret("add_packet") EXCEPT !.arg = <<p>>, !.user = u]
    /\ count' = [count EXCEPT !.adds = @ + 1]
    /\ UNCHANGED <<now, branch, objs, hygiene, active, active_maxlen, short,
                   short_file, mid, next_id, long, long_file, archive, calendar,
                   clair_calendar, last_daily_summary, pc, sel, hist, disk, tmp,
                   local>>

UsConsolidate ==
    /\ count.consolidates < MaxConsolidate
    /\ \E u \in Users :
       \E sumOut \in IF Prune(TiersFor(u).short, now).old = <<>>
                      THEN {"None"} ELSE SummaryOutcomes :
       \E evOut \in IF Prune(TiersFor(u).short, now).old = <<>> \/ sumOut = "TypeError"
                     THEN {[kind |-> "None", date |-> None]} ELSE UserEventOutcomes :
       \E r \in {ConsolidateTiers(
                    TiersOf(TiersFor(u).short, TiersFor(u).mid, TiersFor(u).next_id,
                            TiersFor(u).long, TiersFor(u).archive, calendar,
                            TiersFor(u).last),
                    now, branch, sumOut, evOut, TRUE)} :
       \E dream \in {~r.raised
                      /\ (branch = "codex"
                          \/ (r.tiers.last # None /\ r.tiers.last[1] # ""))} :
            /\ store' = [store EXCEPT ![StorageKey(u)] =
                            [@ EXCEPT !.short = r.tiers.short,
                                      !.mid = r.tiers.mid,
                                      !.next_id = r.tiers.next_id,
                                      !.long = r.tiers.long,
                                      !.archive = r.tiers.archive,
                                      !.last = IF dream /\ branch = "main"
                                               THEN None ELSE r.tiers.last]]
            /\ calendar' = r.tiers.calendar
            /\ hist' = [hist EXCEPT !.scheduled =
                            IF calendar' # calendar THEN Append(@, u) ELSE @]
            /\ ret' = [Ret("consolidate") EXCEPT
                            !.raised = r.raised, !.pruned = r.pruned,
                            !.reinforced = r.reinforced, !.stored = r.stored,
                            !.expired = r.expired, !.demoted = r.demoted,
                            !.event = evOut.date, !.user = u]
    /\ count' = [count EXCEPT !.consolidates = @ + 1]
    /\ UNCHANGED <<now, branch, objs, hygiene, active, active_maxlen, short,
                   short_file, mid, next_id, long, long_file, archive,
                   clair_calendar, last_daily_summary, pc, sel, disk, tmp, local>>

UsSearch ==
    /\ \E u \in Users, query \in Queries :
        ret' = [Ret("search") EXCEPT
                    !.params = <<query>>, !.user = u,
                    !.arg = SearchResults(TiersFor(u).short, TiersFor(u).long, query)]
    /\ UNCHANGED <<now, branch, objs, store, hygiene, active, active_maxlen,
                   short, short_file, mid, next_id, long, long_file, archive,
                   calendar, clair_calendar, last_daily_summary, count, pc, sel,
                   hist, disk, tmp, local>>

UsPurgeArchive ==
    /\ \E u \in Users, days \in AgeInputs, thr \in ThresholdInputs :
        /\ store' = [store EXCEPT ![StorageKey(u)].archive =
                            PurgeOldMemories(@, now, days, thr)]
        /\ ret' = [Ret("purge_archive") EXCEPT !.params = <<days, thr>>, !.user = u]
    /\ UNCHANGED <<now, branch, objs, hygiene, active, active_maxlen, short,
                   short_file, mid, next_id, long, long_file, archive, calendar,
                   clair_calendar, last_daily_summary, count, pc, sel, hist,
                   disk, tmp, local>>

UsCheckProactiveEvents ==
    /\ \E u \in Users :
        LET sw  == Sweep(TiersFor(u).mid, now)
            evs == ListEvents(calendar, DateOf(now - Day))
        IN  /\ store' = [store EXCEPT ![StorageKey(u)].mid = sw.rows]
            /\ \E questions \in
                    {qs \in [DOMAIN evs -> UNION {MaybeAsk(t) : t \in Titles}] :
                        \A i \in DOMAIN evs : qs[i] \in MaybeAsk(evs[i].title)} :
                ret' = [Ret("check_proactive_events") EXCEPT
                            !.expired = sw.packets,
                            !.reminders = Reminders(sw.packets),
                            !.arg = questions,
                            !.followups = Followups(evs, questions),
                            !.user = u]
    /\ UNCHANGED <<now, branch, objs, hygiene, active, active_maxlen, short,
                   short_file, mid, next_id, long, long_file, archive, calendar,
                   clair_calendar, last_daily_summary, count, pc, sel, hist,
                   disk, tmp, local>>

NextUsers ==
    \/ UsAddPacket
    \/ UsConsolidate
    \/ UsSearch
    \/ UsPurgeArchive
    \/ UsCheckProactiveEvents
    \/ Advance

SpecUsers == Init /\ [][NextUsers]_vars

----------------------------------------------------------------------------
(* brain/emotional_hygiene.py.  `blocked` says whether an emotion_state is  *)
(* attached whose evi() is above its threshold; sentiment and valence are   *)
(* in tenths.                                                               *)

(* A variant in which a refused call restarts the cooldown too *)
MaybeCheerUserRestarts(h, t, sentiment, blocked) ==
    IF t - h.last_user_offer < h.user_interval \/ sentiment >= 0 \/ blocked
    THEN [hygiene |-> [h EXCEPT !.last_user_offer = t], result |-> FALSE]
    ELSE [hygiene |-> [h EXCEPT !.last_user_offer = t], result |-> TRUE]

MaybeCheerUser(h, t, sentiment, blocked) ==
    IF t - h.last_user_offer < h.user_interval THEN [hygiene |-> h, result |-> FALSE]
    ELSE IF sentiment >= 0 THEN [hygiene |-> h, result |-> FALSE]
    ELSE IF blocked THEN [hygiene |-> h, result |-> FALSE]
    ELSE [hygiene |-> [h EXCEPT !.last_user_offer = t], result |-> TRUE]

MaybeCheerSelf(h, t, valence, blocked) ==
    IF t - h.last_self_check < h.self_interval THEN [hygiene |-> h, result |-> FALSE]
    ELSE IF valence >= 0 THEN [hygiene |-> h, result |-> FALSE]
    ELSE IF blocked THEN [hygiene |-> h, result |-> FALSE]
    ELSE [hygiene |-> [h EXCEPT !.last_self_check = t], result |-> TRUE]

MaxHygieneSteps == 13
HygieneStep == 5 * 60
SentimentInputs == {-5, 0}
ValenceInputs == {-6, 0}

HyCheerUser ==
    /\ \E sentiment \in SentimentInputs, blocked \in BOOLEAN :
        LET r == MaybeCheerUser(hygiene, now, sentiment, blocked)
        IN  /\ hygiene' = r.hygiene
            /\ ret' = [Ret("maybe_cheer_user") EXCEPT
                            !.params = <<sentiment, blocked>>, !.arg = <<r.result>>]
            /\ hist' = [hist EXCEPT !.cheer_user = IF r.result THEN Some(now) ELSE @]
    /\ UNCHANGED <<now, branch, objs, store, active, active_maxlen, short,
                   short_file, mid, next_id, long, long_file, archive, calendar,
                   clair_calendar, last_daily_summary, count, pc, sel, disk, tmp,
                   local>>

HyCheerSelf ==
    /\ \E valence \in ValenceInputs, blocked \in BOOLEAN :
        LET r == MaybeCheerSelf(hygiene, now, valence, blocked)
        IN  /\ hygiene' = r.hygiene
            /\ ret' = [Ret("maybe_cheer_self") EXCEPT
                            !.params = <<valence, blocked>>, !.arg = <<r.result>>]
            /\ hist' = [hist EXCEPT !.cheer_self = IF r.result THEN Some(now) ELSE @]
    /\ UNCHANGED <<now, branch, objs, store, active, active_maxlen, short,
                   short_file, mid, next_id, long, long_file, archive, calendar,
                   clair_calendar, last_daily_summary, count, pc, sel, disk, tmp,
                   local>>

HyAdvance ==
    /\ now < StartTime + MaxHygieneSteps * HygieneStep
    /\ now' = now + HygieneStep
    /\ ret' = Ret("tick")
    /\ UNCHANGED <<branch, objs, store, hygiene, active, active_maxlen, short,
                   short_file, mid, next_id, long, long_file, archive, calendar,
                   clair_calendar, last_daily_summary, count, pc, sel, hist, disk,
                   tmp, local>>

NextHygiene == HyCheerUser \/ HyCheerSelf \/ HyAdvance

SpecHygiene == Init /\ [][NextHygiene]_vars

----------------------------------------------------------------------------
(* ShortTermMemory and LongTermMemory with every save succeeding, and a   *)
(* restart: new tier objects constructed on the same two paths             *)
RestartPacketInputs(t) ==
    {MemoryPacket(t, text, <<>>, <<>>, 21 * (Scale \div 100), None) : text \in Texts}

RsAdd ==
    /\ Len(short) < MaxEntries
    /\ \E p \in ShortPacketInputs(now) :
        /\ short' = Append(short, p)
        /\ short_file' = Save(short', short_file, disk.short, "ok").file
        /\ ret' = [Ret("add") EXCEPT !.arg = <<p>>]
    /\ UNCHANGED <<now, branch, objs, store, hygiene, active, active_maxlen, mid,
                   next_id, long, long_file, archive, calendar, clair_calendar,
                   last_daily_summary, count, pc, sel, hist, disk, tmp, local>>

RsPrune ==
    /\ LET pr == Prune(short, now)
       IN  /\ short' = IF pr.old # <<>> THEN pr.kept ELSE short
           /\ short_file' = IF pr.old # <<>>
                             THEN Save(pr.kept, short_file, disk.short, "ok").file
                             ELSE short_file
           /\ ret' = [Ret("prune") EXCEPT !.pruned = pr.old]
    /\ UNCHANGED <<now, branch, objs, store, hygiene, active, active_maxlen, mid,
                   next_id, long, long_file, archive, calendar, clair_calendar,
                   last_daily_summary, count, pc, sel, hist, disk, tmp, local>>

RsReinforce ==
    /\ count.long_ops < MaxEntries
    /\ \E p \in RestartPacketInputs(now) :
        /\ long' = Reinforce(long, p)
        /\ long_file' = Save(long', long_file, disk.long, "ok").file
        /\ ret' = [Ret("reinforce") EXCEPT !.arg = <<p>>]
    /\ count' = [count EXCEPT !.long_ops = @ + 1]
    /\ UNCHANGED <<now, branch, objs, store, hygiene, active, active_maxlen, short,
                   short_file, mid, next_id, archive, calendar, clair_calendar,
                   last_daily_summary, pc, sel, hist, disk, tmp, local>>

RsDecay ==
    /\ \E threshold \in DecayThresholds :
        LET d == Decay(long, threshold)
        IN  /\ long' = d.kept
            /\ long_file' = Save(d.kept, long_file, disk.long, "ok").file
            /\ ret' = [Ret("decay") EXCEPT !.params = <<threshold>>,
                                           !.demoted = d.archived]
            /\ hist' = [hist EXCEPT !.demoted = @ \o Texts_(d.archived)]
    /\ UNCHANGED <<now, branch, objs, store, hygiene, active, active_maxlen, short,
                   short_file, mid, next_id, archive, calendar, clair_calendar,
                   last_daily_summary, count, pc, sel, disk, tmp, local>>

RsRestart ==
    /\ short' = Load(short_file, disk.short)
    /\ long' = Load(long_file, disk.long)
    /\ ret' = Ret("restart")
    /\ UNCHANGED <<now, branch, objs, store, hygiene, active, active_maxlen,
                   short_file, mid, next_id, long_file, archive, calendar,
                   clair_calendar, last_daily_summary, count, pc, sel, hist, disk,
                   tmp, local>>

NextRestart == RsAdd \/ RsPrune \/ RsReinforce \/ RsDecay \/ RsRestart

SpecRestart == Init /\ [][NextRestart]_vars

----------------------------------------------------------------------------
(* get_last_events beside add_packet.  recent[-n:] is Python's slice: -0   *)
(* is 0, so for n = 0 the slice starts at index 0; for n >= 1 it starts n  *)
(* from the end, or at index 0 when the list is shorter                    *)
SliceFromMinus(recent, n) ==
    LET k == Len(recent)
        start == IF n = 0 THEN 0 ELSE IF k - n > 0 THEN k - n ELSE 0
    IN  SubSeq(recent, start + 1, k)

GetLastEventsResult(entries, t, n) ==
    LET recent == GetRecent(entries, t, 24)
        tail == SliceFromMinus(recent, n)
    IN  [i \in DOMAIN tail |-> ToDict(tail[i])]

CountInputs == 0 .. MaxPackets + 1

GetLastEvents ==
    /\ \E n \in CountInputs :
        ret' = [Ret("get_last_events") EXCEPT
                    !.params = <<n>>,
                    !.arg = GetLastEventsResult(short, now, n)]
    /\ UNCHANGED <<now, branch, objs, store, hygiene, active, active_maxlen, short,
                   short_file, mid, next_id, long, long_file, archive, calendar,
                   clair_calendar, last_daily_summary, count, pc, sel, hist, disk,
                   tmp, local>>

NextEvents == AddPacket \/ GetLastEvents \/ Advance

SpecEvents == Init /\ [][NextEvents]_vars

----------------------------------------------------------------------------
(* The Coordinator over storage that fails: a save that does not succeed,  *)
(* an INSERT that raises, files whose bytes are no longer well formed.     *)

(* conn.execute("INSERT ...") in MidTermMemory.add: sqlite3 raises on a     *)
(* file that is not a database, and may raise on a locked or full one.     *)
MidInsertOutcomes(state) == IF state = "corrupt" THEN {"error"} ELSE {"ok", "error"}

(* add_packet; an exception of mid.add leaves the method at once *)
AddPacketF ==
    /\ count.adds < MaxPackets
    /\ \E p \in PacketInputs(now), so \in SaveOutcomes :
       \E mo \in IF Truthy(p.expiry) THEN MidInsertOutcomes(disk.mid) ELSE {"ok"} :
       \E lo \in IF p.salience >= PromoteThreshold /\ mo = "ok"
                  THEN SaveOutcomes ELSE {"ok"} :
        LET sv    == Save(Append(short, p), short_file, disk.short, so)
            reinf == p.salience >= PromoteThreshold /\ mo = "ok"
            lv    == Save(Reinforce(long, p), long_file, disk.long, lo)
        IN  /\ active' = Push(active, p)
            /\ short' = Append(short, p)
            /\ short_file' = sv.file
            /\ IF Truthy(p.expiry) /\ mo = "ok"
               THEN /\ mid' = MidAdd(mid, next_id, p, p.expiry[1])
                    /\ next_id' = next_id + 1
               ELSE UNCHANGED <<mid, next_id>>
            /\ long' = IF reinf THEN Reinforce(long, p) ELSE long
            /\ long_file' = IF reinf THEN lv.file ELSE long_file
            /\ disk' = [disk EXCEPT !.short = sv.state,
                                    !.long = IF reinf THEN lv.state ELSE @]
            /\ ret' = [Ret("add_packet") EXCEPT
                            !.arg = <<p>>,
                            !.raised = (mo = "error"),
                            !.reinforced = IF reinf THEN <<p>> ELSE <<>>,
                            !.faults = (IF so # "ok" THEN {"short"} ELSE {})
                                       \cup (IF mo # "ok" THEN {"mid"} ELSE {})
                                       \cup (IF lo # "ok" THEN {"long"} ELSE {}),
                            !.reported = IF mo = "error" THEN {"mid"} ELSE {}]
    /\ count' = [count EXCEPT !.adds = @ + 1]
    /\ UNCHANGED <<now, branch, objs, store, hygiene, active_maxlen, archive, calendar, clair_calendar,
                   last_daily_summary, pc, sel,
                   hist, tmp, local>>

(* the bytes of a tier's file stop being well formed (a torn write, a bad  *)
(* sector, another program); what the file held can no longer be read      *)
PersistedTiers == {"short", "mid", "long", "archive"}

Corrupt(tier) ==
    /\ disk[tier] = "ok"
    /\ tier = "short" => short_file # <<>>
    /\ tier = "long" => long_file # <<>>
    /\ tier = "archive" => archive # <<>>
    /\ disk' = [disk EXCEPT ![tier] = "corrupt"]
    /\ short_file' = IF tier = "short" THEN <<>> ELSE short_file
    /\ mid' = IF tier = "mid" THEN <<>> ELSE mid
    /\ long_file' = IF tier = "long" THEN <<>> ELSE long_file
    /\ archive' = IF tier = "archive" THEN <<>> ELSE archive
    /\ ret' = [Ret("corrupt") EXCEPT !.params = <<tier>>]
    /\ UNCHANGED <<now, branch, objs, store, hygiene, active, active_maxlen, short, next_id, long, calendar, clair_calendar,
                   last_daily_summary, count, pc, sel, hist, tmp, local>>

(* MemoryCoordinator.__init__ over the files as they are: ShortTermMemory   *)
(* and LongTermMemory load their file, MidTermMemory runs CREATE TABLE IF   *)
(* NOT EXISTS, which sqlite3 refuses on a file that is not a database.      *)
Reopen ==
    /\ IF disk.mid = "corrupt"
       THEN /\ ret' = [Ret("open") EXCEPT !.raised = TRUE, !.reported = {"mid"}]
            /\ UNCHANGED <<active, active_maxlen, short, long, last_daily_summary>>
       ELSE /\ active' = <<>>
            /\ active_maxlen' = ActiveMaxLen
            /\ short' = Load(short_file, disk.short)
            /\ long' = Load(long_file, disk.long)
            /\ last_daily_summary' = None
            /\ ret' = Ret("open")
    /\ UNCHANGED <<now, branch, objs, store, hygiene, short_file, mid, next_id, long_file, archive,
                   calendar, clair_calendar, count, pc, sel, hist, disk, tmp, local>>

(* archive.fetch_by_tags: gzip raises from `for line in f`, outside the     *)
(* try, when the file is not a complete gzip stream                         *)
RdFetchByTags ==
    /\ \E tags \in TagInputs :
        ret' = IF disk.archive = "corrupt"
               THEN [Ret("fetch_by_tags") EXCEPT !.params = <<tags>>, !.raised = TRUE]
               ELSE [Ret("fetch_by_tags") EXCEPT !.params = <<tags>>,
                                                !.arg = FetchByTags(archive, tags)]
    /\ UNCHANGED <<now, branch, objs, store, hygiene, active, active_maxlen, short, short_file, mid, next_id, long,
                   long_file, archive, calendar, clair_calendar, last_daily_summary, count, pc,
                   sel, hist, disk, tmp, local>>

InitFaults ==
    /\ branch = "main"
    /\ \E ar \in {<<>>, Lines(<<ReminderPacket(StartTime, "ev", StartTime)>>)} :
            Start(<<>>, <<>>, 1, ar)

NextFaults ==
    \/ AddPacketF
    \/ \E tier \in PersistedTiers : Corrupt(tier)
    \/ Reopen
    \/ RdFetchByTags

SpecFaults == InitFaults /\ [][NextFaults]_vars

----------------------------------------------------------------------------
(* Properties *)

Last(q) == q[Len(q)]
Appended(before, after) == SubSeq(after, Len(before) + 1, Len(after))
HasText(entries, text) == \E i \in DOMAIN entries : entries[i].text = text
InArchive(lines, p) == \E i \in DOMAIN lines : JsonLoads(lines[i]) = p

(* C1: add_packet puts the packet into Active and Short-Term always, into   *)
(* Mid-Term exactly when its expiry is set, and into Long-Term (through     *)
(* reinforce) exactly when its salience is at least 0.8.                    *)
C1_WriteFanOut ==
    [][ret'.op = "add_packet" =>
        LET p == ret'.arg[1]
        IN  /\ Len(active') > 0 /\ Last(active') = p
            /\ Len(short') = Len(short) + 1 /\ Last(short') = p
            /\ (p.expiry # None) =>
                    /\ Len(mid') = Len(mid) + 1
                    /\ JsonLoads(Last(mid').data) = p
            /\ (p.expiry = None) => mid' = mid
            /\ (p.salience >= PromoteThreshold) =>
                    ret'.reinforced = <<p>> /\ HasText(long', p.text)
            /\ (p.salience < PromoteThreshold) => long' = long
    ]_vars

(* C2: when consolidate returns, every Short-Term packet older than 24     *)
(* hours has left Short-Term, has been appended to the Archive whatever    *)
(* its salience, and has been reinforced into Long-Term exactly when its   *)
(* own salience is at least 0.8.                                           *)
C2_AgedPacketsConsolidated ==
    [][(ret'.op = "consolidate" /\ ~ret'.raised) =>
        \A i \in DOMAIN short :
            short[i].timestamp < now - 24 * 3600 =>
                LET p == short[i]
                IN  /\ p \notin Range(short')
                    /\ InArchive(Appended(archive, archive'), p)
                    /\ (p.salience >= PromoteThreshold) <=>
                            (p \in Range(ret'.reinforced))
                    /\ (p.salience >= PromoteThreshold) => HasText(long', p.text)
    ]_vars

C2_Witness ==
    /\ ret.op = "consolidate"
    /\ ~ret.raised
    /\ \E p, q \in Range(ret.pruned) :
        /\ p.salience >= PromoteThreshold
        /\ q.salience < PromoteThreshold
        /\ InArchive(archive, p)
        /\ InArchive(archive, q)
        /\ HasText(long, p.text)

(* C3: every packet that a sweep made by consolidate or by                 *)
(* check_proactive_events returns is stored in the Archive by that same    *)
(* operation.                                                              *)
C3_SweptIsArchived ==
    [][ret'.op \in {"consolidate", "check_proactive_events"} =>
        \A i \in DOMAIN ret'.expired :
            InArchive(Appended(archive, archive'), ret'.expired[i])
    ]_vars

NoDuplicates(q) == \A i, j \in DOMAIN q : q[i] = q[j] => i = j

(* C4: sweep returns every stored entry whose expiry is at most now and no *)
(* other, deletes exactly those, returns nothing when called again at once, *)
(* and over any run of sweeps returns each entry at most once.             *)
C4_SweepExactAndIdempotent ==
    /\ [][ret'.op = "sweep" =>
            /\ Len(ret'.expired) + Len(mid') = Len(mid)
            /\ \A i \in DOMAIN mid :
                    IF mid[i].expiry <= now
                    THEN /\ mid[i] \notin Range(mid')
                         /\ mid[i].id \in Range(hist'.swept)
                         /\ JsonLoads(mid[i].data) \in Range(ret'.expired)
                    ELSE /\ mid[i] \in Range(mid')
                         /\ mid[i].id \notin Range(hist'.swept)
            /\ Len(hist'.swept) = Len(hist.swept) + Len(ret'.expired)
         ]_vars
    /\ [][(ret.op = "sweep" /\ ret'.op = "sweep") => ret'.expired = <<>>]_vars
    /\ [](NoDuplicates(hist.swept))

C4_Witness ==
    /\ ret.op = "sweep"
    /\ ret.expired # <<>>
    /\ mid # <<>>
    /\ hist.swept # <<>>

(* C5: when two sweep() calls on the same store interleave, no stored      *)
(* entry is returned by both.                                              *)
C5_NoEntrySweptTwice ==
    \A t1, t2 \in Threads :
        (t1 # t2 /\ pc[t1] = "done" /\ pc[t2] = "done") =>
            Ids(sel[t1]) \cap Ids(sel[t2]) = {}

(* C6: from an empty store, no two Long-Term entries ever have the same    *)
(* text; reinforce of a stored text raises that entry's salience by 0.1,   *)
(* capped at 1.0, and adds nothing; reinforce of a new text appends the    *)
(* packet's record.                                                        *)
C6_ReinforceDeduplicates ==
    /\ [](\A i, j \in DOMAIN long : long[i].text = long[j].text => i = j)
    /\ [][ret'.op = "reinforce" =>
            LET p == ret'.arg[1]
            IN  IF HasText(long, p.text)
                THEN /\ Len(long') = Len(long)
                     /\ \A i \in DOMAIN long :
                            IF long[i].text = p.text
                            THEN /\ long'[i].text = p.text
                                 /\ long'[i].salience =
                                        Min(Scale, long[i].salience + Scale \div 10)
                            ELSE long'[i] = long[i]
                ELSE long' = long \o <<p>>
         ]_vars

C6_Witness ==
    /\ ret.op = "reinforce"
    /\ Len(long) = 1
    /\ ret.arg[1].text = long[1].text
    /\ ret.arg[1].salience = 5 * (Scale \div 10)
    /\ long[1].salience = 6 * (Scale \div 10)

(* C7: one decay(threshold) multiplies every salience by 0.99, returns     *)
(* exactly the entries now below the threshold, keeps exactly the others,  *)
(* and every entry present before is in exactly one of the two.            *)
IsDecayOf(after, before) ==
    /\ after.text = before.text
    /\ after.timestamp = before.timestamp
    /\ 100 * after.salience - 99 * before.salience <= 50
    /\ 99 * before.salience - 100 * after.salience < 50

C7_DecayPartitions ==
    [][ret'.op = "decay" =>
        LET threshold == ret'.params[1]
        IN  /\ Len(ret'.demoted) + Len(long') = Len(long)
            /\ \A i \in DOMAIN ret'.demoted : ret'.demoted[i].salience < threshold
            /\ \A i \in DOMAIN long' : long'[i].salience >= threshold
            /\ \A i \in DOMAIN long :
                    LET d == {j \in DOMAIN ret'.demoted :
                                    IsDecayOf(ret'.demoted[j], long[i])}
                        k == {j \in DOMAIN long' : IsDecayOf(long'[j], long[i])}
                    IN  Cardinality(d) + Cardinality(k) = 1
    ]_vars

C7_Witness ==
    /\ ret.op = "decay"
    /\ ret.demoted # <<>>
    /\ long # <<>>

(* C8: under repeated decay() with no reinforce, no entry's salience ever  *)
(* increases; an entry that starts at 0.21 is eventually returned as       *)
(* demoted; an entry is returned by one decay() call only and is gone from *)
(* the store from then on.                                                 *)
C8_DecayMonotoneDemotesOnce ==
    /\ [][\A i \in DOMAIN long :
            /\ \A j \in DOMAIN long' :
                    long'[j].text = long[i].text =>
                        long'[j].salience <= long[i].salience
            /\ \A j \in DOMAIN ret'.demoted :
                    ret'.demoted[j].text = long[i].text =>
                        ret'.demoted[j].salience <= long[i].salience
         ]_vars
    /\ [](NoDuplicates(hist.demoted))
    /\ [](\A i \in DOMAIN hist.demoted : ~HasText(long, hist.demoted[i]))
    /\ \A text \in Texts :
            (\E i \in DOMAIN long :
                long[i].text = text /\ long[i].salience = 21 * (Scale \div 100))
            ~> (text \in Range(hist.demoted))

C8_Witness ==
    /\ ret.op = "decay"
    /\ long # <<>>
    /\ \E i \in DOMAIN ret.demoted :
        ret.demoted[i].salience =
            Times99(Times99(Times99(Times99(Times99(21 * (Scale \div 100))))))

(* C9: every salience held by a packet or a Long-Term entry, in any tier,  *)
(* lies in [0, 1].                                                         *)
InRange(sal) == 0 <= sal /\ sal <= Scale

C9_SalienceInRange ==
    /\ \A i \in DOMAIN active : InRange(active[i].salience)
    /\ \A i \in DOMAIN short : InRange(short[i].salience)
    /\ \A i \in DOMAIN mid : InRange(JsonLoads(mid[i].data).salience)
    /\ \A i \in DOMAIN long : InRange(long[i].salience)
    /\ \A i \in DOMAIN archive : InRange(JsonLoads(archive[i]).salience)

(* C10: purge_old_memories removes a record exactly when it is both older  *)
(* than the age threshold and below the salience threshold; every other    *)
(* record stays, in its original relative order.                           *)
RECURSIVE Survivors(_, _, _)
Survivors(lines, cutoff, threshold) ==
    IF lines = <<>> THEN <<>>
    ELSE LET r     == JsonLoads(Head(lines))
             fails == r.timestamp >= cutoff \/ r.salience >= threshold
         IN  (IF fails THEN <<Head(lines)>> ELSE <<>>)
             \o Survivors(Tail(lines), cutoff, threshold)

C10_PurgeIsConjunction ==
    [][ret'.op = "purge_archive" =>
        LET days      == ret'.params[1]
            threshold == ret'.params[2]
        IN  archive' = Survivors(archive, now - days * 24 * 3600, threshold)
    ]_vars

C10_Witness ==
    /\ ret.op = "purge_archive"
    /\ ret.dropped # <<>>
    /\ \E i, j \in DOMAIN archive :
        /\ i < j
        /\ JsonLoads(archive[i]).timestamp < now - ret.params[1] * 24 * 3600
        /\ JsonLoads(archive[i]).salience >= ret.params[2]
        /\ JsonLoads(archive[j]).timestamp >= now - ret.params[1] * 24 * 3600
        /\ JsonLoads(archive[j]).salience < ret.params[2]

(* C11: the purge writes the survivors to the temporary file and replaces  *)
(* the archive only when every line has been copied; at every point before *)
(* that, and after a purge that crashed or failed, the archive holds       *)
(* exactly the records it held when the purge started.                     *)
C11_PurgeCrashAtomic ==
    /\ [](pc[1] = "copying" => archive = local[1].before)
    /\ [][ret'.op \in {"purge_open", "purge_copy"} => archive' = archive]_vars
    /\ [][(ret'.op = "purge_archive" /\ ret'.raised) =>
                archive' = archive /\ archive' = ret'.arg]_vars
    /\ [][(ret'.op = "purge_archive" /\ ~ret'.raised) =>
                /\ local[1].read = Len(archive)
                /\ archive' = Survivors(ret'.arg, local[1].cutoff, ret'.params[2])]_vars

C11_Witness ==
    /\ ret.op = "purge_archive"
    /\ ret.raised
    /\ tmp # None
    /\ tmp[1] # <<>>
    /\ Len(tmp[1]) < Len(archive)
    /\ archive = ret.arg

(* C12: with no purge_archive call, every operation leaves the archive's   *)
(* earlier records in place and only appends; consolidate appends exactly  *)
(* the packets it hands to store(), in that order, duplicates included.    *)
C12_ArchiveOnlyGrows ==
    /\ [][ret'.op # "purge_archive" =>
            /\ Len(archive') >= Len(archive)
            /\ SubSeq(archive', 1, Len(archive)) = archive]_vars
    /\ [][ret'.op = "consolidate" => archive' = archive \o Lines(ret'.stored)]_vars
    /\ [][ret'.op \in {"add_packet", "check_proactive_events", "search",
                        "fetch_by_tags"} => archive' = archive]_vars

C12_Witness ==
    /\ ret.op = "consolidate"
    /\ \E i, j \in DOMAIN archive : i < j /\ archive[i] = archive[j]
    /\ \E i, j \in DOMAIN ret.stored : i < j /\ ret.stored[i] = ret.stored[j]

RECURSIVE Since(_, _)
Since(entries, cutoff) ==
    IF entries = <<>> THEN <<>>
    ELSE (IF Head(entries).timestamp >= cutoff THEN <<Head(entries)>> ELSE <<>>)
         \o Since(Tail(entries), cutoff)

RECURSIVE Before(_, _)
Before(entries, cutoff) ==
    IF entries = <<>> THEN <<>>
    ELSE (IF Head(entries).timestamp < cutoff THEN <<Head(entries)>> ELSE <<>>)
         \o Before(Tail(entries), cutoff)

C14_WindowAndPrune ==
    /\ [][ret'.op = "get_recent" =>
            /\ ret'.arg = Since(short, now - ret'.params[1] * 3600)
            /\ short' = short
            /\ short_file' = short_file
            /\ \A i \in DOMAIN short :
                    (ret'.params[1] = 24 /\ short[i].timestamp = now - 25 * 3600) =>
                        short[i] \notin Range(ret'.arg) /\ short[i] \in Range(short')
         ]_vars
    /\ [][ret'.op = "prune" =>
            /\ ret'.pruned = Before(short, now - 24 * 3600)
            /\ short' = Since(short, now - 24 * 3600)
            /\ \A i \in DOMAIN short :
                    short[i].timestamp = now - 25 * 3600 => short[i] \notin Range(short')
         ]_vars

C14_Witness ==
    /\ ret.op = "prune"
    /\ \E i \in DOMAIN ret.pruned : ret.pruned[i].timestamp = now - 25 * 3600
    /\ \E i \in DOMAIN short : short[i].timestamp = now - 24 * 3600

(* C15: when ShortTermMemory.add(packet) returns without signalling an     *)
(* error the persisted collection contains the packet, and a save that     *)
(* failed is reported to the caller.                                       *)
C15_AddDurableOrFails ==
    [][ret'.op = "add" =>
        /\ ~ret'.raised =>
                disk'.short = "ok" /\ ret'.arg[1] \in Range(short_file')
        /\ ret'.faults # {} => ret'.raised
    ]_vars

(* C16: when the text-generation collaborator gives nothing usable (the    *)
(* summary call returns nothing or cannot be made, the event call returns  *)
(* nothing or text that is not JSON) and nothing else fails, consolidate   *)
(* does not raise, the daily summary is the empty string, no event is      *)
(* scheduled, and the pruned packets are archived, the expired Mid-Term    *)
(* rows swept and Long-Term decayed all the same.                          *)
C16_CollaboratorNeverRaises ==
    [][(/\ ret'.op = "consolidate"
        /\ ret'.llm # <<>>
        /\ ret'.faults = {}
        /\ ret'.llm[1] \in {"TypeError", "None"}
        /\ Len(ret'.llm) = 2 => ret'.llm[2] \in {"None", "garbage"}) =>
            /\ ~ret'.raised
            /\ last_daily_summary' = Some("")
            /\ calendar' = calendar
            /\ next_id' = next_id
            /\ \A i \in DOMAIN ret'.pruned :
                    InArchive(Appended(archive, archive'), ret'.pruned[i])
            /\ \A i \in DOMAIN mid' : mid'[i].expiry > now
            /\ \A i \in DOMAIN long :
                    \A j \in DOMAIN long' :
                        long'[j].text = long[i].text =>
                            long'[j].salience <= Times99(Min(Scale, long[i].salience + Scale \div 10))
    ]_vars

(* C17: whatever step of consolidate fails, every packet the call pruned   *)
(* from Short-Term is in the Archive when the call ends (or still in       *)
(* Short-Term), and a failing calendar write does not make the call raise. *)
C17_NoPrunedPacketLost ==
    [][ret'.op = "consolidate" =>
        /\ \A i \in DOMAIN ret'.pruned :
                \/ ret'.pruned[i] \in Range(short')
                \/ InArchive(archive', ret'.pruned[i])
        /\ ret'.faults = {"calendar"} => ~ret'.raised
    ]_vars

(* C18: when a tier's write fails during add_packet, the writes made to    *)
(* the other tiers stay, the Long-Term reinforce of a packet of salience   *)
(* at least 0.8 still happens unless it is the write that failed, and the  *)
(* caller is told which tiers failed.                                      *)
C18_PartialFanOut ==
    [][(ret'.op = "add_packet" /\ ret'.faults # {}) =>
        LET p == ret'.arg[1]
        IN  /\ Len(active') > 0 /\ Last(active') = p
            /\ Len(short') = Len(short) + 1 /\ Last(short') = p
            /\ "short" \notin ret'.faults => p \in Range(short_file')
            /\ (p.salience >= PromoteThreshold /\ "long" \notin ret'.faults) =>
                    /\ ret'.reinforced = <<p>>
                    /\ HasText(long', p.text)
                    /\ HasText(long_file', p.text)
            /\ ret'.reported = ret'.faults
    ]_vars

(* C19: opening the stores, or reading one, when the data on disk is       *)
(* malformed never raises; the tier whose file is malformed comes up       *)
(* empty.                                                                  *)
C19_MalformedDataNeverFatal ==
    /\ [][ret'.op = "open" =>
            /\ ~ret'.raised
            /\ disk.short = "corrupt" => short' = <<>>
            /\ disk.long = "corrupt" => long' = <<>>
            /\ disk.mid = "corrupt" => mid' = <<>>
         ]_vars
    /\ [][ret'.op = "fetch_by_tags" =>
            /\ ~ret'.raised
            /\ disk.archive = "corrupt" => ret'.arg = <<>>
         ]_vars

(* C20: when add(p) and prune() on the same Short-Term store have both     *)
(* finished, in whatever order their statements ran, p is in the list and  *)
(* in the saved file unless prune returned it.                             *)
C20_AddNotLostByPrune ==
    (pc[1] = "done" /\ pc[2] = "done") =>
        \/ local[1].packet \in Range(local[2].old)
        \/ /\ local[1].packet \in Range(short)
           /\ local[1].packet \in Range(short_file)

(* C21: when a reinforce call and another reinforce or decay call on the   *)
(* same Long-Term store have both finished, in whatever order their        *)
(* statements ran, the store is what one of the two sequential orders of   *)
(* the calls gives.                                                        *)
Serial(call, entries) ==
    IF call.kind = "reinforce"
    THEN Reinforce(entries, call.packet)
    ELSE Decay(entries, DefaultThreshold).kept

C21_LongTermSerialized ==
    (pc[1] = "done" /\ pc[2] = "done") =>
        long \in {Serial(local[2].call, Serial(local[1].call, local[1].start)),
                  Serial(local[1].call, Serial(local[2].call, local[1].start))}

(* C22: in a consolidate that gets an answer to the event-extraction       *)
(* prompt and whose calendar write does not fail: when the answer parses   *)
(* as a JSON object, one event is added to the "user" calendar and one     *)
(* packet to Mid-Term, tagged reminder, its text beginning "Proactive      *)
(* Reminder" and its expiry the event's date minus 3 days; otherwise the   *)
(* calendar gets no event and Mid-Term no packet.                          *)
C22_EventScheduling ==
    [][(/\ ret'.op = "consolidate"
        /\ Len(ret'.llm) = 2
        /\ "calendar" \notin ret'.faults) =>
            IF ret'.llm[2] \in {"dict", "emptydict"}
            THEN /\ Len(calendar') = Len(calendar) + 1
                 /\ next_id' = next_id + 1
                 /\ \E q \in Range(Packets(mid')) \cup Range(ret'.expired) :
                        /\ q.timestamp = now
                        /\ q.tags = <<"reminder">>
                        /\ StartsWithMarker(q.text)
                        /\ ret'.event # None =>
                                q.expiry = Some(ret'.event[1] * 24 * 3600 - 3 * 24 * 3600)
                 /\ ret'.event # None =>
                        \E e \in Range(calendar') : e.date = ret'.event[1]
            ELSE /\ calendar' = calendar
                 /\ next_id' = next_id
    ]_vars

(* C23: the reminders of check_proactive_events are the texts of the       *)
(* packets this call swept from Mid-Term whose text begins with            *)
(* "Proactive Reminder", in sweep order, and of no other packet.           *)
C23_RemindersAreSweptReminders ==
    [][ret'.op = "check_proactive_events" =>
        LET swept == Packets(SelectSeq(mid, LAMBDA r :
                        r.id \notin {x.id : x \in Range(mid')}))
            due   == SelectSeq(swept, LAMBDA p : StartsWithMarker(p.text))
        IN  /\ Len(ret'.reminders) = Len(due)
            /\ \A i \in DOMAIN due : ret'.reminders[i] = due[i].text
    ]_vars

(* C23 witness: one call swept a reminder and a packet that is none        *)
C23_Witness ==
    /\ ret.op = "check_proactive_events"
    /\ Len(ret.reminders) = 1
    /\ Len(ret.expired) = 2

(* C24: the followups of check_proactive_events hold one entry for each    *)
(* event of the "user" calendar dated yesterday, in calendar order: the    *)
(* question of the curiosity collaborator when it gave one, otherwise      *)
(* "How did <title> go yesterday?"; events of another date or of the       *)
(* "clair" calendar give no entry.                                         *)
C24_FollowupsPerYesterdayEvent ==
    [][ret'.op = "check_proactive_events" =>
        LET evs == SelectSeq(calendar, LAMBDA e : e.date = (now - 24 * 3600) \div (24 * 3600))
        IN  /\ Len(ret'.followups) = Len(evs)
            /\ \A i \in DOMAIN evs :
                    IF ret'.arg[i] # <<>>
                    THEN ret'.followups[i] = ret'.arg[i][1]
                    ELSE ret'.followups[i] = "How did " \o evs[i].title \o " go yesterday?"
    ]_vars

(* C24 witness: two events of yesterday, one answered by the collaborator  *)
(* and one by the template, beside an event of the other owner             *)
C24_Witness ==
    /\ ret.op = "check_proactive_events"
    /\ Len(ret.followups) = 2
    /\ \E i, j \in {1, 2} : ret.arg[i] = <<>> /\ ret.arg[j] # <<>>
    /\ clair_calendar # <<>>

(* C25: search(query) returns the Short-Term entries whose text contains   *)
(* the query, compared case-insensitively, in insertion order, followed by *)
(* the matching Long-Term entries in their order; every result is an entry *)
(* of one of the two tiers, so a packet that is only in the Archive is not *)
(* returned; search changes no tier.                                       *)
C25_SearchShortThenLong ==
    [][ret'.op = "search" =>
        LET q  == ret'.params[1]
            sm == SelectSeq(short, LAMBDA p : Lower(q) \in Letters(p.text))
            lm == SelectSeq(long, LAMBDA e : Lower(q) \in Letters(e.text))
        IN  /\ ret'.arg = sm \o lm
            /\ \A i \in DOMAIN ret'.arg :
                    \/ \E j \in DOMAIN short : short[j] = ret'.arg[i]
                    \/ \E j \in DOMAIN long : long[j] = ret'.arg[i]
            /\ UNCHANGED <<short, long, archive, mid, active, active_maxlen>>
    ]_vars

(* C25 witness: a search that returns a Short-Term and a Long-Term entry   *)
(* while the Archive holds a matching packet that is in neither tier       *)
C25_Witness ==
    /\ ret.op = "search"
    /\ \E i, j \in DOMAIN ret.arg :
            /\ i < j
            /\ \E k \in DOMAIN short : short[k] = ret.arg[i]
            /\ \E k \in DOMAIN long : long[k] = ret.arg[j]
    /\ \E k \in DOMAIN archive :
            /\ Lower(ret.params[1]) \in Letters(JsonLoads(archive[k]).text)
            /\ \A e \in Range(short) \cup Range(long) :
                    e.text # JsonLoads(archive[k]).text

(* C26: Active Memory constructed with capacity N holds at most N packets, *)
(* and they are the N most recently pushed, in push order (after N+1       *)
(* pushes the oldest one held is the second one pushed); a push, evicting  *)
(* or not, changes nothing outside Active Memory.                          *)
LastN(seq, n) ==
    IF Len(seq) <= n THEN seq ELSE SubSeq(seq, Len(seq) - n + 1, Len(seq))

C26_ActiveBoundedFifo ==
    /\ [](/\ Len(active) <= active_maxlen
          /\ active = LastN(hist.pushed, active_maxlen)
          /\ Len(hist.pushed) = active_maxlen + 1 =>
                (Len(active) = active_maxlen /\ active[1] = hist.pushed[2]))
    /\ [][ret'.op = "push" =>
            UNCHANGED <<short, short_file, mid, next_id, long, long_file,
                        archive, calendar, clair_calendar, active_maxlen>>]_vars

(* C26 witness: capacity 2, three pushes of which the first differs from   *)
(* the second, and the buffer holds the second and the third               *)
C26_Witness ==
    /\ active_maxlen = 2
    /\ Len(hist.pushed) = 3
    /\ hist.pushed[1] # hist.pushed[2]
    /\ active = <<hist.pushed[2], hist.pushed[3]>>
    /\ ret.op = "push"

(* C27: an entry leaves Long-Term only in a decay that returns it as       *)
(* demoted: whatever the Coordinator does, a text that Long-Term holds     *)
(* before the step and not after it is the text of an entry the decay of   *)
(* that consolidate returned; add_packet (reinforce) and search (query)    *)
(* remove none.                                                            *)
C27_LongTermRemovesOnlyByDecay ==
    [][\A i \in DOMAIN long :
            (\A j \in DOMAIN long' : long'[j].text # long[i].text) =>
                /\ ret'.op = "consolidate"
                /\ \E k \in DOMAIN ret'.demoted :
                        ret'.demoted[k].text = long[i].text
    ]_vars

(* C27 witness: a consolidate in which decay demoted an entry that         *)
(* Long-Term held before and no longer holds                               *)
C27_Witness ==
    /\ ret.op = "consolidate"
    /\ ret.demoted # <<>>
    /\ \A j \in DOMAIN long : long[j].text # ret.demoted[1].text

(* C28: fetch_by_tags(tags) returns the archived records that carry every  *)
(* query tag, in archive order, all of them and no other; the empty query  *)
(* returns every record; the archive is left as it was.                    *)
C28_FetchByTagsSuperset ==
    [][ret'.op = "fetch_by_tags" =>
        LET tags == ret'.params[1]
            recs == [i \in DOMAIN archive |-> archive[i][2]]
            hit  == SelectSeq(recs, LAMBDA r :
                        \A i \in DOMAIN tags : \E j \in DOMAIN r.tags :
                            r.tags[j] = tags[i])
        IN  /\ ret'.arg = hit
            /\ tags = <<>> => ret'.arg = recs
            /\ archive' = archive
    ]_vars

(* C28 witness: a query of two tags over an archive of three records, of   *)
(* which it returns the one that has both and not the one that has one     *)
C28_Witness ==
    /\ ret.op = "fetch_by_tags"
    /\ Len(ret.params[1]) = 2
    /\ ret.params[1][1] # ret.params[1][2]
    /\ Len(archive) = 3
    /\ Len(ret.arg) = 1
    /\ \E k \in DOMAIN archive : Len(archive[k][2].tags) = 1

(* C29: fetch_active() returns the Mid-Term entries whose expiry is later  *)
(* than now and removes nothing; every entry the Coordinator placed in     *)
(* Mid-Term is either one fetch_active would return or one sweep would     *)
(* remove, and not both; sweep leaves exactly the entries fetch_active     *)
(* returns.                                                                *)
C29_FetchActiveComplementsSweep ==
    /\ [](LET act == FetchActive(mid, now)
              due == Sweep(mid, now)
          IN  /\ Len(act) + Len(due.packets) = Len(mid)
              /\ \A i \in DOMAIN mid :
                    (mid[i].expiry > now) # (mid[i].id \in due.ids)
              /\ act = Packets(due.rows))
    /\ [][ret'.op = "fetch_active" =>
            /\ ret'.arg = Packets(SelectSeq(mid, LAMBDA r : r.expiry > now))
            /\ mid' = mid]_vars

(* C29 witness: fetch_active returned one entry of two, the other one      *)
(* expiring at this very instant                                           *)
C29_Witness ==
    /\ ret.op = "fetch_active"
    /\ Len(mid) = 2
    /\ Len(ret.arg) = 1
    /\ \E i \in DOMAIN mid : mid[i].expiry = now

(* C30: every consolidate runs its steps in this order: the Short-Term     *)
(* prune; only when something was pruned, the daily summary, the event     *)
(* scheduling and the reinforce-and-archive of each pruned packet; then    *)
(* the Mid-Term sweep, whose packets are archived; then the Long-Term      *)
(* decay, whose demoted entries are archived.  So Long-Term afterwards is  *)
(* the decay of what the reinforcements of this pass left, the Archive has *)
(* grown by the packets of the three steps in that order, and a reminder   *)
(* scheduled in this pass that is already due is swept in this pass.       *)
RECURSIVE ReinforceAll(_, _)
ReinforceAll(entries, packets) ==
    IF packets = <<>> THEN entries
    ELSE ReinforceAll(Reinforce(entries, Head(packets)), Tail(packets))

C30_ConsolidateStepOrder ==
    [][ret'.op = "consolidate" =>
        LET before == ReinforceAll(long, ret'.reinforced)
            dc     == Decay(before, DefaultThreshold)
            first  == Len(ret'.stored) - Len(ret'.expired) - Len(ret'.demoted)
        IN  /\ ret'.pruned = SelectSeq(short, LAMBDA p : p \notin Range(short'))
            /\ ret'.pruned = <<>> =>
                    (ret'.llm = <<>> /\ ret'.reinforced = <<>> /\ calendar' = calendar)
            /\ long' = dc.kept
            /\ ret'.demoted = dc.archived
            /\ first >= 0
            /\ ret'.stored = SubSeq(ret'.stored, 1, first) \o ret'.expired \o ret'.demoted
            /\ archive' = archive \o Lines(ret'.stored)
            /\ \A i \in DOMAIN mid' : mid'[i].expiry > now
    ]_vars

(* C31: the tiers hold independent copies of a packet: an assignment to a  *)
(* field of the packet object the caller passed to add_packet changes what *)
(* no tier holds, and what one tier holds never changes because of what is *)
(* done to another tier's record.                                          *)
C31_TierCopiesIndependent ==
    [][ret'.op = "assign" =>
        /\ active' = active
        /\ short' = short
        /\ mid' = mid
        /\ long' = long
    ]_vars

(* C32: whatever one of the two Coordinators does (add_packet,             *)
(* consolidate, search, purge_archive, check_proactive_events), the        *)
(* Active, Short-Term, Mid-Term, Long-Term and Archive contents of the     *)
(* other user's Coordinator stay as they were.                             *)
C32_PerUserTierIsolation ==
    [][\A u \in Users : ret'.user = u =>
            \A v \in Users \ {u} : TiersFor(v)' = TiersFor(v)
    ]_vars

(* C32 witness: a consolidate of user A that pruned and archived, while    *)
(* user B has a packet in Short-Term, in Mid-Term and in Long-Term         *)
C32_Witness ==
    /\ ret.op = "consolidate"
    /\ ret.user = "A"
    /\ ret.stored # <<>>
    /\ store["A"].archive # <<>>
    /\ store["B"].short # <<>>
    /\ store["B"].mid # <<>>
    /\ store["B"].long # <<>>
    /\ store["B"].archive = <<>>

(* C38: what check_proactive_events returns to a user comes from that      *)
(* user's own history: a user for whom no consolidate scheduled an event   *)
(* gets no follow-up, and gets only reminders swept from the own Mid-Term. *)
C38_ProactiveOutputsPerUser ==
    [][\A u \in Users :
        (ret'.op = "check_proactive_events" /\ ret'.user = u) =>
            /\ (\A i \in DOMAIN hist.scheduled : hist.scheduled[i] # u) =>
                    ret'.followups = <<>>
            /\ \A i \in DOMAIN ret'.reminders :
                    \E j \in DOMAIN TiersFor(u).mid :
                        TiersFor(u).mid[j].data[2].text = ret'.reminders[i]
    ]_vars

(* C33: a maybe_cheer_user call made less than user_interval seconds after *)
(* the last one that returned True returns False whatever the signals; a   *)
(* call that returned False has not restarted the cooldown, so once        *)
(* user_interval seconds have passed since the last True a call with       *)
(* negative sentiment and no block returns True.  The same for             *)
(* maybe_cheer_self with self_interval.                                    *)
C33_HygieneCooldown ==
    [][/\ ret'.op = "maybe_cheer_user" =>
            IF hist.cheer_user # None /\ now - hist.cheer_user[1] < hygiene.user_interval
            THEN ret'.arg = <<FALSE>>
            ELSE (ret'.params[1] < 0 /\ ~ret'.params[2]) => ret'.arg = <<TRUE>>
       /\ ret'.op = "maybe_cheer_self" =>
            IF hist.cheer_self # None /\ now - hist.cheer_self[1] < hygiene.self_interval
            THEN ret'.arg = <<FALSE>>
            ELSE (ret'.params[1] < 0 /\ ~ret'.params[2]) => ret'.arg = <<TRUE>>
    ]_vars

(* C33 witness: 55 minutes after maybe_cheer_user returned True, a call    *)
(* with negative sentiment and no block is refused, and maybe_cheer_self   *)
(* has returned True as well                                               *)
C33_Witness ==
    /\ ret.op = "maybe_cheer_user"
    /\ ret.arg = <<FALSE>>
    /\ ret.params = <<-5, FALSE>>
    /\ hist.cheer_user # None
    /\ now - hist.cheer_user[1] = 55 * 60
    /\ hist.cheer_self # None

(* C34: a "Proactive Reminder" packet that the scheduling step placed in   *)
(* Mid-Term is consumed only by a check_proactive_events call, which       *)
(* reports it in `reminders`: no consolidate sweeps a reminder, neither    *)
(* one that an earlier step of the same call created nor one that is       *)
(* stored, and a reminder row leaves Mid-Term only in a                    *)
(* check_proactive_events whose reminders carry its text.                  *)
C34_ReminderDelivered ==
    [][/\ ret'.op = "consolidate" =>
            \A i \in DOMAIN ret'.expired : ~StartsWithMarker(ret'.expired[i].text)
       /\ \A i \in DOMAIN mid :
            (/\ StartsWithMarker(mid[i].data[2].text)
             /\ \A j \in DOMAIN mid' : mid'[j].id # mid[i].id) =>
                /\ ret'.op = "check_proactive_events"
                /\ \E k \in DOMAIN ret'.reminders :
                        ret'.reminders[k] = mid[i].data[2].text
    ]_vars

(* C35: consolidate leaves Active Memory as it is, keeps every Short-Term  *)
(* packet not older than 24 hours and every Mid-Term entry whose expiry is *)
(* still ahead; when no Short-Term packet is older than 24 hours and no    *)
(* Mid-Term entry has expired, Short-Term and Mid-Term are unchanged,      *)
(* Long-Term is its own decay and the Archive grows by exactly the         *)
(* entries that decay demoted.                                             *)
C35_ConsolidateFrame ==
    [][ret'.op = "consolidate" =>
        LET recent == SelectSeq(short, LAMBDA p : p.timestamp >= now - 24 * 3600)
            ahead  == SelectSeq(mid, LAMBDA r : r.expiry > now)
            dc     == Decay(long, DefaultThreshold)
        IN  /\ active' = active
            /\ short' = recent
            /\ \A i \in DOMAIN ahead : \E j \in DOMAIN mid' : mid'[j] = ahead[i]
            /\ (recent = short /\ ahead = mid) =>
                    /\ mid' = mid
                    /\ long' = dc.kept
                    /\ archive' = archive \o Lines(dc.archived)
    ]_vars

(* C35 witness: a consolidate that found nothing to prune and nothing      *)
(* expired, with packets in Active, Short-Term and Mid-Term, and whose     *)
(* decay demoted an entry                                                  *)
C35_Witness ==
    /\ ret.op = "consolidate"
    /\ ret.pruned = <<>>
    /\ ret.expired = <<>>
    /\ ret.demoted # <<>>
    /\ active # <<>>
    /\ short # <<>>
    /\ mid # <<>>

(* C36: while every save succeeds, what the Short-Term file and the        *)
(* Long-Term file hold is what the tiers hold in memory, entry by entry in *)
(* the same order, after every add, prune, reinforce and decay; a restart, *)
(* which loads the two files into new tier objects, therefore gives the    *)
(* same entries, and an entry that decay returned as demoted is not among  *)
(* them.                                                                   *)
C36_RestartRoundTrip ==
    /\ [](/\ Len(short_file) = Len(short)
          /\ \A i \in DOMAIN short : short_file[i] = short[i]
          /\ Len(long_file) = Len(long)
          /\ \A i \in DOMAIN long : long_file[i] = long[i])
    /\ [][ret'.op = "restart" =>
            /\ short' = short
            /\ long' = long
            /\ ret.op = "decay" =>
                    \A i \in DOMAIN ret.demoted : \A j \in DOMAIN long' :
                        long'[j].text # ret.demoted[i].text]_vars

(* C36 witness: a restart right after a decay that demoted one entry and   *)
(* kept another, with a packet left in Short-Term by a prune               *)
C36_Witness ==
    /\ ret.op = "restart"
    /\ hist.demoted # <<>>
    /\ long # <<>>
    /\ short # <<>>

(* C37: get_last_events(n), for every n >= 0, returns at most n events,    *)
(* namely the last min(n, k) of the k Short-Term packets of the last 24    *)
(* hours in insertion order, and changes no tier.                          *)
C37_GetLastEventsAtMostN ==
    [][ret'.op = "get_last_events" =>
        LET n == ret'.params[1]
            recent == GetRecent(short, now, 24)
            k == Len(recent)
            m == IF n < k THEN n ELSE k
        IN  /\ Len(ret'.arg) <= n
            /\ ret'.arg = SubSeq(recent, k - m + 1, k)
            /\ UNCHANGED <<active, short, short_file, mid, long, long_file,
                           archive>>]_vars

====
